---- MODULE Spec2Model ----
(***************************************************************************)
(* State-machine model of the ephysics collision core:                     *)
(*   - the broad-phase dynamic AABB tree (DynamicAABBTree.cpp, AABB.cpp),  *)
(*     its maintenance operations and its ray cast                         *)
(*   - the persistent contact manifold (ContactManifold.cpp)               *)
(*   - the smooth mesh filter of the concave against convex narrow phase   *)
(*     (ConcaveVsConvexAlgorithm.cpp)                                      *)
(*   - islands and sleeping of rigid bodies (Island.h, RigidBody.hpp)      *)
(*   - the pool allocator (MemoryAllocator.cpp); a pointer is a pair       *)
(*     <<block, offset>>, the block being -1 for memory of malloc          *)
(*   - the point-inside test of the cone (ConeShape.hpp), lengths in units *)
(*     of 0.1                                                              *)
(* Tree lengths are integers in units of 0.1, so that the constant gap 0.1 *)
(* and the displacement multiplier 1.7 are exact.  Vectors are triples     *)
(* <<x, y, z>>; the C arrays children[0..1] are the tuples children[1..2]. *)
(***************************************************************************)
EXTENDS Integers, Sequences, FiniteSets, TLC

VARIABLES
    mNodes,             \* DynamicAABBTree::mNodes, a function 0..mNbAllocatedNodes-1 -> TreeNode
    m_rootNodeID,       \* DynamicAABBTree::m_rootNodeID
    mFreeNodeID,        \* DynamicAABBTree::mFreeNodeID
    mNbNodes,           \* DynamicAABBTree::mNbNodes
    mNbAllocatedNodes,  \* DynamicAABBTree::mNbAllocatedNodes
    objects,            \* node ids handed out by addObject and not yet removed
    hist,               \* observation of the last tree operation
    nOps,               \* number of tree operations performed
    m_contactPoints,    \* ContactManifold::m_contactPoints, slots 0..3 -> contact point id
    m_nbContactPoints,  \* ContactManifold::m_nbContactPoints
    contactPool,        \* memory of the contact points, by id
    liveContacts,       \* ids of the contact points allocated and not released
    bodyTransform1,     \* pose of body 1
    bodyTransform2,     \* pose of body 2
    mhist,              \* observation of the last manifold operation
    mOps,               \* number of manifold operations performed
    m_frictionImpulse,  \* ContactManifold::m_frictionImpulse1, 2 and m_frictionTwistImpulse
    ray,                \* the ray of the ray cast
    rayPc,              \* "idle", "loop" (in the loop of raycast) or "done"
    stack,              \* the stack of raycast, top at the end
    maxFraction,        \* the local maxFraction of raycast
    calls,              \* the callback invocations so far
    hitOf,              \* leaf id -> hit fraction of its shape, or Miss
    callbackMode,       \* "own": the callback returns hitOf; "any": any value
    isSmoothMeshCollisionEnabled, \* ConcaveShape::getIsSmoothMeshCollisionEnabled()
    triangleContacts,   \* the contacts of the triangle tests, in the order of the triangles
    contactPoints,      \* the contacts collected for the smooth mesh filter, sorted
    smoothIt,           \* the iterator of processSmoothMeshCollision, an index from 1
    processTriangleVertices, \* the triangle vertices already processed
    notified,           \* the contacts notified to the narrow-phase callback
    reported,           \* for each contact processed, whether it was notified
    smoothPc,           \* "idle", "loop" (in processSmoothMeshCollision) or "done"
    bodyType,           \* body -> "dynamic" or "static"
    m_isSleeping,       \* body -> Body::m_isSleeping
    m_sleepTime,        \* body -> Body::m_sleepTime, in time steps
    velocity,           \* body -> speed: 0 at rest, 1 below the sleep threshold, 2 above
    m_externalForce,    \* body -> whether RigidBody::m_externalForce is not zero
    m_externalTorque,   \* body -> whether RigidBody::m_externalTorque is not zero
    contactPairs,       \* the pairs of bodies in contact in the current step
    islands,            \* the islands of the current step, each a set of bodies
    worldPc,            \* "idle" between steps, "solved" after the solver of a step
    whist,              \* observation of the last call on the world or a body
    worldSteps,         \* number of steps performed
    bodyCalls,          \* number of calls on the bodies performed
    mMapSizeToHeapIndex, \* MemoryAllocator::mMapSizeToHeapIndex, size -> heap index
    mapI,               \* i of the loop that fills mMapSizeToHeapIndex
    mapJ,               \* j of the loop that fills mMapSizeToHeapIndex
    mFreeMemoryUnits,   \* heap index -> the list of its free units, the head first
    mMemoryBlocks,      \* the blocks allocated: the unit size each was divided in
    mNbAllocatedMemoryBlocks, \* MemoryAllocator::mNbAllocatedMemoryBlocks
    systemMemory,       \* the pointers given by malloc for large sizes, not yet freed
    nbSystemCalls,      \* number of pointers malloc has given for large sizes
    liveUnits,          \* the pairs <<pointer, size>> allocated and not released
    ahist,              \* observation of the last call of allocate or release
    allocOps,           \* number of calls of allocate and release
    allocPc,            \* "none", "constructing" (in the constructor) or "ready"
    coneShape,          \* the cone: ConeShape::m_radius and ConeShape::m_halfHeight
    coneBodyTransform,  \* the transform of the body of the cone, a quarter turn and a translation
    coneShapeTransform, \* the transform of the cone in its body, a quarter turn and a translation
    localPoint,         \* the point tested, in the space of the cone
    worldPoint,         \* the point tested, in world space
    bodyAnswer,         \* the answer of CollisionBody::testPointInside, or NoAnswer
    proxyAnswer,        \* the answer of ProxyShape::testPointInside, or NoAnswer
    lastNewAABB,        \* the argument newAABB of the last updateObject
    lastDisplacement,   \* the argument displacement of the last updateObject
    overlapAABB,        \* the argument aabb of reportAllShapesOverlappingWithAABB
    overlapStack,       \* its stack, top at the end
    overlapCalls,       \* the node ids notified to its callback so far
    overlapPc           \* "idle", "loop" (in the loop of the query) or "done"

treeVars == <<mNodes, m_rootNodeID, mFreeNodeID, mNbNodes, mNbAllocatedNodes>>
treeStateVars == <<mNodes, m_rootNodeID, mFreeNodeID, mNbNodes, mNbAllocatedNodes,
                   objects, hist, nOps>>
manifoldVars == <<m_contactPoints, m_nbContactPoints, contactPool, liveContacts,
                  bodyTransform1, bodyTransform2, mhist, mOps, m_frictionImpulse>>
rayVars == <<ray, rayPc, stack, maxFraction, calls, hitOf, callbackMode>>
smoothVars == <<isSmoothMeshCollisionEnabled, triangleContacts, contactPoints, smoothIt,
                processTriangleVertices, notified, reported, smoothPc>>
sleepVars == <<bodyType, m_isSleeping, m_sleepTime, velocity, m_externalForce,
               m_externalTorque, contactPairs, islands, worldPc, whist, worldSteps, bodyCalls>>
allocVars == <<mMapSizeToHeapIndex, mapI, mapJ, mFreeMemoryUnits, mMemoryBlocks,
               mNbAllocatedMemoryBlocks, systemMemory, nbSystemCalls, liveUnits, ahist,
               allocOps, allocPc>>
coneVars == <<coneShape, coneBodyTransform, coneShapeTransform, localPoint, worldPoint,
              bodyAnswer, proxyAnswer>>
updateVars == <<lastNewAABB, lastDisplacement>>
overlapVars == <<overlapAABB, overlapStack, overlapCalls, overlapPc>>
restVars == <<smoothVars, sleepVars, allocVars, coneVars, updateVars, overlapVars>>
otherVars == <<manifoldVars, rayVars, restVars>>
vars == <<treeStateVars, manifoldVars, rayVars, restVars>>

(***************************************************************************)
(* Bounds of the model                                                     *)
(***************************************************************************)
MaxOps == 5          \* tree operations explored from the empty tree
GrownAdds == 6       \* insertions that build the initial trees of SpecGrown
GrownOps == 3        \* tree operations explored from a grown tree
MaxManifoldOps == 5  \* manifold operations explored from the empty manifold
MaxRayLeaves == 3    \* leaves of the trees that are ray cast
FilledOps == 1       \* manifold operations explored from a filled manifold
MaxWorldSteps == 3   \* simulation steps of the world of sleeping bodies
MaxBodyCalls == 1    \* calls on the bodies between the steps
MaxAllocOps == 4     \* calls of allocate and release
ResetOps == 6        \* tree operations and resets explored from the empty tree
MovingOps == 3       \* insertions and updates with a displacement
OverlapOps == 4      \* tree operations before an overlap query

(***************************************************************************)
(* Program constants                                                       *)
(***************************************************************************)
NULL_TREE_NODE == -1
InitialAllocatedNodes == 8
mExtraAABBGap == 1
LinGapMultiplierNum == 17
LinGapMultiplierDen == 10
ZeroToleranceNum == 1
ZeroToleranceDen == 10000
NB_HEAPS == 128
MAX_UNIT_SIZE == 1024
BLOCK_SIZE == 4096
NbBlocksStep == 64
UnitGranularity == 8

Max2(a, b) == IF a > b THEN a ELSE b
Min2(a, b) == IF a < b THEN a ELSE b
Abs(x) == IF x < 0 THEN -x ELSE x

(***************************************************************************)
(* AABB                                                                    *)
(***************************************************************************)
ZeroAABB == [min |-> <<0, 0, 0>>, max |-> <<0, 0, 0>>]

mergeTwoAABBs(aabb1, aabb2) ==
    [min |-> <<Min2(aabb1.min[1], aabb2.min[1]),
               Min2(aabb1.min[2], aabb2.min[2]),
               Min2(aabb1.min[3], aabb2.min[3])>>,
     max |-> <<Max2(aabb1.max[1], aabb2.max[1]),
               Max2(aabb1.max[2], aabb2.max[2]),
               Max2(aabb1.max[3], aabb2.max[3])>>]

contains(self, aabb) ==
    /\ self.min[1] <= aabb.min[1]
    /\ self.min[2] <= aabb.min[2]
    /\ self.min[3] <= aabb.min[3]
    /\ self.max[1] >= aabb.max[1]
    /\ self.max[2] >= aabb.max[2]
    /\ self.max[3] >= aabb.max[3]

getVolume(aabb) ==
    (aabb.max[1] - aabb.min[1]) * (aabb.max[2] - aabb.min[2]) * (aabb.max[3] - aabb.min[3])

(***************************************************************************)
(* Tree nodes.  parentID doubles as nextNodeID (first union of TreeNode);  *)
(* children doubles as dataInt (second union of TreeNode).                 *)
(***************************************************************************)
isLeaf(node) == node.height = 0

FreshNode(i, last, g) ==
    [parentID |-> IF i < last THEN i + 1 ELSE NULL_TREE_NODE,
     children |-> <<g, g>>,
     height   |-> -1,
     aabb     |-> [min |-> <<g, g, g>>, max |-> <<g, g, g>>]]

\* The tree as one value: the five fields of DynamicAABBTree, plus rot,
\* the number of rotations performed since the current operation began.
Tree == [nodes |-> mNodes, root |-> m_rootNodeID, free |-> mFreeNodeID,
         nb |-> mNbNodes, alloc |-> mNbAllocatedNodes, rot |-> 0]

init ==
    [nodes |-> [i \in 0..(InitialAllocatedNodes - 1) |->
                   FreshNode(i, InitialAllocatedNodes - 1, 0)],
     root  |-> NULL_TREE_NODE,
     free  |-> 0,
     nb    |-> 0,
     alloc |-> InitialAllocatedNodes,
     rot   |-> 0]

\* Lines 67-87: when the free list is empty the array is doubled; g is the
\* content of the memory malloc returns for the new half of the array.
GrowIfFull(t, g) ==
    IF t.free = NULL_TREE_NODE
    THEN [t EXCEPT !.alloc = 2 * t.alloc,
                   !.nodes = [i \in 0..(2 * t.alloc - 1) |->
                                IF i < t.nb THEN t.nodes[i]
                                ELSE FreshNode(i, 2 * t.alloc - 1, g)],
                   !.free = t.nb]
    ELSE t

\* Lines 90-96: pop the head of the free list
TakeFreeNode(t) ==
    [t  |-> [t EXCEPT !.free = t.nodes[t.free].parentID,
                      !.nodes[t.free].parentID = NULL_TREE_NODE,
                      !.nodes[t.free].height = 0,
                      !.nb = t.nb + 1],
     id |-> t.free]

allocateNode(t, g) == TakeFreeNode(GrowIfFull(t, g))

\* releaseNode that forgets to mark the node as free
releaseNode_KeepHeight(t, nodeID) ==
    [t EXCEPT !.nodes[nodeID].parentID = t.free,
              !.free = nodeID,
              !.nb = t.nb - 1]

\* releaseNode that does not link the node to the free nodes
releaseNode_Unlinked(t, nodeID) ==
    [t EXCEPT !.nodes[nodeID].parentID = NULL_TREE_NODE,
              !.nodes[nodeID].height = -1,
              !.free = nodeID,
              !.nb = t.nb - 1]

releaseNode(t, nodeID) ==
    [t EXCEPT !.nodes[nodeID].parentID = t.free,
              !.nodes[nodeID].height = -1,
              !.free = nodeID,
              !.nb = t.nb - 1]

(***************************************************************************)
(* Rotations                                                               *)
(***************************************************************************)
\* In the node parent, the child old is replaced by new; without a parent
\* new becomes the root.
ReplaceChild(t, parent, old, new) ==
    IF parent # NULL_TREE_NODE
    THEN IF t.nodes[parent].children[1] = old
         THEN [t EXCEPT !.nodes[parent].children[1] = new]
         ELSE [t EXCEPT !.nodes[parent].children[2] = new]
    ELSE [t EXCEPT !.root = new]

\* Re-link the promoted child P (nodeC or nodeB) in place of nodeID.
PromoteChild(t, nodeID, P) ==
    ReplaceChild([t EXCEPT !.nodes[P].children[1] = nodeID,
                           !.nodes[P].parentID = t.nodes[nodeID].parentID,
                           !.nodes[nodeID].parentID = P],
                 t.nodes[nodeID].parentID, nodeID, P)

\* Recompute the AABB and the height of a node from the nodes l and r
RefitNode(t, nodeID, l, r) ==
    [t EXCEPT !.nodes[nodeID].aabb = mergeTwoAABBs(t.nodes[l].aabb, t.nodes[r].aabb),
              !.nodes[nodeID].height = Max2(t.nodes[l].height, t.nodes[r].height) + 1]

\* Recompute the height only
RefitHeight(t, nodeID, l, r) ==
    [t EXCEPT !.nodes[nodeID].height = Max2(t.nodes[l].height, t.nodes[r].height) + 1]

\* FinishRotation that does not recompute the AABB of the demoted node
FinishRotation_StaleAABB(t, nodeID, P, Other, Keep, Give, side) ==
    RefitNode(RefitHeight([t EXCEPT !.nodes[P].children[2] = Keep,
                                    !.nodes[nodeID].children[side] = Give,
                                    !.nodes[Give].parentID = nodeID,
                                    !.rot = t.rot + 1],
                          nodeID, Other, Give),
              P, nodeID, Keep)

\* After the promotion of P: P keeps Keep as second child, nodeID takes Give
\* in the slot side (1 or 2) that P has left, Other is nodeID's other child.
FinishRotation(t, nodeID, P, Other, Keep, Give, side) ==
    RefitNode(RefitNode([t EXCEPT !.nodes[P].children[2] = Keep,
                                  !.nodes[nodeID].children[side] = Give,
                                  !.nodes[Give].parentID = nodeID,
                                  !.rot = t.rot + 1],
                        nodeID, Other, Give),
              P, nodeID, Keep)

\* The taller grandchild stays with P, the other one is given to nodeID
GiveGrandChild(t1, nodeID, P, Other, F, G, side) ==
    IF t1.nodes[F].height > t1.nodes[G].height
    THEN FinishRotation(t1, nodeID, P, Other, F, G, side)
    ELSE FinishRotation(t1, nodeID, P, Other, G, F, side)

RotateUp(t, nodeID, P, Other, side) ==
    [t  |-> GiveGrandChild(PromoteChild(t, nodeID, P), nodeID, P, Other,
                           t.nodes[P].children[1], t.nodes[P].children[2], side),
     id |-> P]

BalanceChildren(t, nodeID, nodeBID, nodeCID) ==
    IF t.nodes[nodeCID].height - t.nodes[nodeBID].height > 1
    THEN RotateUp(t, nodeID, nodeCID, nodeBID, 2)
    ELSE IF t.nodes[nodeCID].height - t.nodes[nodeBID].height < -1
    THEN RotateUp(t, nodeID, nodeBID, nodeCID, 1)
    ELSE [t |-> t, id |-> nodeID]

balanceSubTreeAtNode(t, nodeID) ==
    IF isLeaf(t.nodes[nodeID]) \/ t.nodes[nodeID].height < 2
    THEN [t |-> t, id |-> nodeID]
    ELSE BalanceChildren(t, nodeID, t.nodes[nodeID].children[1],
                         t.nodes[nodeID].children[2])

(***************************************************************************)
(* Insertion and removal of a leaf                                         *)
(***************************************************************************)
\* The loop that walks from a node up to the root: balance, then recompute
\* height and AABB of the root of the balanced sub-tree, then go to its parent.
RECURSIVE RefitUp(_, _)
RefitParent(t, currentNodeID) == RefitUp(t, t.nodes[currentNodeID].parentID)

RefitBalanced(b) ==
    RefitParent(RefitNode(b.t, b.id, b.t.nodes[b.id].children[1],
                          b.t.nodes[b.id].children[2]),
                b.id)

RefitUp(t, currentNodeID) ==
    IF currentNodeID = NULL_TREE_NODE THEN t
    ELSE RefitBalanced(balanceSubTreeAtNode(t, currentNodeID))

\* Cost of descending into a child, given the inheritance cost
DescendCost(t, child, newNodeAABB, costI) ==
    IF isLeaf(t.nodes[child])
    THEN getVolume(mergeTwoAABBs(newNodeAABB, t.nodes[child].aabb)) + costI
    ELSE costI + getVolume(mergeTwoAABBs(newNodeAABB, t.nodes[child].aabb))
               - getVolume(t.nodes[child].aabb)

\* The descent of insertLeafNode that chooses the sibling of the new leaf.
RECURSIVE FindSibling(_, _, _)
ChooseBranch(t, currentNodeID, newNodeAABB, costS, costLeft, costRight) ==
    IF costS < costLeft /\ costS < costRight THEN currentNodeID
    ELSE IF costLeft < costRight
         THEN FindSibling(t, t.nodes[currentNodeID].children[1], newNodeAABB)
         ELSE FindSibling(t, t.nodes[currentNodeID].children[2], newNodeAABB)

DescendCosts(t, currentNodeID, newNodeAABB, volumeAABB, mergedVolume) ==
    ChooseBranch(t, currentNodeID, newNodeAABB, 2 * mergedVolume,
                 DescendCost(t, t.nodes[currentNodeID].children[1], newNodeAABB,
                             2 * (mergedVolume - volumeAABB)),
                 DescendCost(t, t.nodes[currentNodeID].children[2], newNodeAABB,
                             2 * (mergedVolume - volumeAABB)))

FindSibling(t, currentNodeID, newNodeAABB) ==
    IF isLeaf(t.nodes[currentNodeID]) THEN currentNodeID
    ELSE DescendCosts(t, currentNodeID, newNodeAABB,
                      getVolume(t.nodes[currentNodeID].aabb),
                      getVolume(mergeTwoAABBs(t.nodes[currentNodeID].aabb, newNodeAABB)))

\* LinkNewParent writing the merged AABB into the sibling as well
LinkNewParent_MergeIntoSibling(t, nodeID, siblingNode, newParentNode, oldParentNode) ==
    [ReplaceChild(t, oldParentNode, siblingNode, newParentNode) EXCEPT
        !.nodes[newParentNode].parentID = oldParentNode,
        !.nodes[newParentNode].aabb =
            mergeTwoAABBs(t.nodes[siblingNode].aabb, t.nodes[nodeID].aabb),
        !.nodes[siblingNode].aabb =
            mergeTwoAABBs(t.nodes[siblingNode].aabb, t.nodes[nodeID].aabb),
        !.nodes[newParentNode].height = t.nodes[siblingNode].height + 1,
        !.nodes[newParentNode].children = <<siblingNode, nodeID>>,
        !.nodes[siblingNode].parentID = newParentNode,
        !.nodes[nodeID].parentID = newParentNode]

\* Lines 275-308: the new parent takes the place of the sibling and gets the
\* sibling and the new leaf as children
LinkNewParent(t, nodeID, siblingNode, newParentNode, oldParentNode) ==
    [ReplaceChild(t, oldParentNode, siblingNode, newParentNode) EXCEPT
        !.nodes[newParentNode].parentID = oldParentNode,
        !.nodes[newParentNode].aabb =
            mergeTwoAABBs(t.nodes[siblingNode].aabb, t.nodes[nodeID].aabb),
        !.nodes[newParentNode].height = t.nodes[siblingNode].height + 1,
        !.nodes[newParentNode].children = <<siblingNode, nodeID>>,
        !.nodes[siblingNode].parentID = newParentNode,
        !.nodes[nodeID].parentID = newParentNode]

\* a is the result of allocateNode for the new parent
InsertBeside(a, nodeID, siblingNode) ==
    RefitUp(LinkNewParent(a.t, nodeID, siblingNode, a.id,
                          a.t.nodes[siblingNode].parentID),
            a.id)

insertLeafNode(t, nodeID, g) ==
    IF t.root = NULL_TREE_NODE
    THEN [t EXCEPT !.root = nodeID, !.nodes[nodeID].parentID = NULL_TREE_NODE]
    ELSE InsertBeside(allocateNode(t, g), nodeID,
                      FindSibling(t, t.root, t.nodes[nodeID].aabb))

\* Lines 358-395: the sibling takes the place of the parent, which is released
\* removeLeafNode that leaves the parent of a child of the root allocated
UnlinkParent_KeepsRootParent(t, parentNodeID, grandParentNodeID, siblingNodeID) ==
    IF grandParentNodeID # NULL_TREE_NODE
    THEN RefitUp(releaseNode(
                   [ReplaceChild(t, grandParentNodeID, parentNodeID, siblingNodeID)
                      EXCEPT !.nodes[siblingNodeID].parentID = grandParentNodeID],
                   parentNodeID),
                 grandParentNodeID)
    ELSE [t EXCEPT !.root = siblingNodeID,
                   !.nodes[siblingNodeID].parentID = NULL_TREE_NODE]

UnlinkParent(t, parentNodeID, grandParentNodeID, siblingNodeID) ==
    IF grandParentNodeID # NULL_TREE_NODE
    THEN RefitUp(releaseNode(
                   [ReplaceChild(t, grandParentNodeID, parentNodeID, siblingNodeID)
                      EXCEPT !.nodes[siblingNodeID].parentID = grandParentNodeID],
                   parentNodeID),
                 grandParentNodeID)
    ELSE releaseNode([t EXCEPT !.root = siblingNodeID,
                               !.nodes[siblingNodeID].parentID = NULL_TREE_NODE],
                     parentNodeID)

SiblingOf(t, parentNodeID, nodeID) ==
    IF t.nodes[parentNodeID].children[1] = nodeID
    THEN t.nodes[parentNodeID].children[2]
    ELSE t.nodes[parentNodeID].children[1]

removeLeafNode(t, nodeID) ==
    IF t.root = nodeID
    THEN [t EXCEPT !.root = NULL_TREE_NODE]
    ELSE UnlinkParent(t, t.nodes[nodeID].parentID,
                      t.nodes[t.nodes[nodeID].parentID].parentID,
                      SiblingOf(t, t.nodes[nodeID].parentID, nodeID))

(***************************************************************************)
(* Public operations                                                       *)
(***************************************************************************)
Inflate(aabb, gap) ==
    [min |-> <<aabb.min[1] - gap, aabb.min[2] - gap, aabb.min[3] - gap>>,
     max |-> <<aabb.max[1] + gap, aabb.max[2] + gap, aabb.max[3] + gap>>]

\* a is the result of allocateNode for the new leaf
InsertNewLeaf(a, aabb, g) ==
    [t  |-> insertLeafNode([a.t EXCEPT !.nodes[a.id].aabb = Inflate(aabb, mExtraAABBGap),
                                       !.nodes[a.id].height = 0],
                           a.id, g),
     id |-> a.id]

addObjectInternal(t, aabb, g) == InsertNewLeaf(allocateNode(t, g), aabb, g)

\* r is the result of addObjectInternal
StoreData(r, data1, data2) ==
    [t |-> [r.t EXCEPT !.nodes[r.id].children = <<data1, data2>>], id |-> r.id]

\* addObject(aabb, data1, data2): the two integers are stored in the leaf
addObject(t, aabb, data1, data2, g) ==
    StoreData(addObjectInternal(t, aabb, g), data1, data2)

removeObject(t, nodeID) ==
    releaseNode(removeLeafNode(t, nodeID), nodeID)

LinGap(d) == (LinGapMultiplierNum * d) \div LinGapMultiplierDen

\* the minimum side moved whatever the sign of the displacement
MotionMin_AnySign(lo, d) == lo + LinGap(d)

\* One axis of the inflation in the direction of the motion
MotionMin(lo, d) == IF d < 0 THEN lo + LinGap(d) ELSE lo
MotionMax(hi, d) == IF d < 0 THEN hi ELSE hi + LinGap(d)

Stretch(f, displacement) ==
    [min |-> <<MotionMin(f.min[1], displacement[1]),
               MotionMin(f.min[2], displacement[2]),
               MotionMin(f.min[3], displacement[3])>>,
     max |-> <<MotionMax(f.max[1], displacement[1]),
               MotionMax(f.max[2], displacement[2]),
               MotionMax(f.max[3], displacement[3])>>]

FatAABB(newAABB, displacement) ==
    Stretch(Inflate(newAABB, mExtraAABBGap), displacement)

Reinsert(t, nodeID, fat, g) ==
    insertLeafNode([t EXCEPT !.nodes[nodeID].aabb = fat], nodeID, g)

\* updateObject that always removes and reinserts the leaf
updateObject_AlwaysReinsert(t, nodeID, newAABB, displacement, forceReinsert, g) ==
    [t   |-> Reinsert(removeLeafNode(t, nodeID), nodeID,
                      FatAABB(newAABB, displacement), g),
     ret |-> TRUE]

updateObject(t, nodeID, newAABB, displacement, forceReinsert, g) ==
    IF ~forceReinsert /\ contains(t.nodes[nodeID].aabb, newAABB)
    THEN [t |-> t, ret |-> FALSE]
    ELSE [t   |-> Reinsert(removeLeafNode(t, nodeID), nodeID,
                           FatAABB(newAABB, displacement), g),
          ret |-> TRUE]

(***************************************************************************)
(* Statistics                                                              *)
(***************************************************************************)
RECURSIVE computeHeight(_, _)
computeHeight(t, nodeID) ==
    IF isLeaf(t.nodes[nodeID]) THEN 0
    ELSE 1 + Max2(computeHeight(t, t.nodes[nodeID].children[1]),
                  computeHeight(t, t.nodes[nodeID].children[2]))

\* Height of the whole tree; -1 stands for the empty tree
TreeHeight(t) == IF t.root = NULL_TREE_NODE THEN -1 ELSE computeHeight(t, t.root)

(***************************************************************************)
(* Vectors and rigid transforms (manifold lengths are in units of 0.01)    *)
(***************************************************************************)
VAdd(a, b) == <<a[1] + b[1], a[2] + b[2], a[3] + b[3]>>
VSub(a, b) == <<a[1] - b[1], a[2] - b[2], a[3] - b[3]>>
VScale(a, s) == <<a[1] * s, a[2] * s, a[3] * s>>
dot(a, b) == a[1] * b[1] + a[2] * b[2] + a[3] * b[3]
cross(a, b) == <<a[2] * b[3] - a[3] * b[2],
                 a[3] * b[1] - a[1] * b[3],
                 a[1] * b[2] - a[2] * b[1]>>
lengthSquare(a) == dot(a, a)

\* A rotation by turns quarter turns about the z axis
Rotate(v, turns) ==
    IF turns % 4 = 0 THEN v
    ELSE IF turns % 4 = 1 THEN <<-v[2], v[1], v[3]>>
    ELSE IF turns % 4 = 2 THEN <<-v[1], -v[2], v[3]>>
    ELSE <<v[2], -v[1], v[3]>>

\* Transform * Vector3: rotate, then translate
TransformPoint(tr, v) == VAdd(Rotate(v, tr.turns), tr.position)

\* Transform.getInverse() * Vector3
InverseTransformPoint(tr, v) == Rotate(VSub(v, tr.position), 4 - (tr.turns % 4))

Identity == [turns |-> 0, position |-> <<0, 0, 0>>]

(***************************************************************************)
(* Contact manifold                                                        *)
(***************************************************************************)
MAX_CONTACT_POINTS_IN_MANIFOLD == 4
PERSISTENT_CONTACT_DIST_THRESHOLD == 3
UnitsPerMetre == 100

\* The contact point the narrow phase builds for the bodies at the poses
\* tr1 and tr2: world points from the local points, penetration depth along
\* the normal from the point on body 2 to the point on body 1, no impulse
\* accumulated yet.
ContactPoint(info, tr1, tr2) ==
    [localPointOnBody1 |-> info.localPoint1,
     localPointOnBody2 |->
         InverseTransformPoint(tr2,
             VSub(TransformPoint(tr1, info.localPoint1),
                  VScale(info.normal, info.penetrationDepth))),
     worldPointOnBody1 |-> TransformPoint(tr1, info.localPoint1),
     worldPointOnBody2 |-> VSub(TransformPoint(tr1, info.localPoint1),
                                VScale(info.normal, info.penetrationDepth)),
     normal            |-> info.normal,
     penetrationDepth  |-> info.penetrationDepth,
     penetrationImpulse |-> 0,
     frictionImpulse1  |-> 0,
     frictionImpulse2  |-> 0]

\* The manifold as one value: the slots, the count, the memory of the
\* contact points and the set of the contact points not yet released.
Manifold == [cp |-> m_contactPoints, nb |-> m_nbContactPoints,
             pool |-> contactPool, live |-> liveContacts]

\* The contact point in slot i
At(m, i) == m.pool[m.cp[i]]

\* removeContactPoint that does not move the last contact into the hole
removeContactPoint_NoSwap(m, index) ==
    [m EXCEPT !.live = m.live \ {m.cp[index]},
              !.nb = m.nb - 1]

\* removeContactPoint that moves the contact of slot 0 into the hole
removeContactPoint_MoveFirst(m, index) ==
    [m EXCEPT !.live = m.live \ {m.cp[index]},
              !.cp[index] = IF index < m.nb - 1 THEN m.cp[0] ELSE m.cp[index],
              !.nb = m.nb - 1]

removeContactPoint(m, index) ==
    [m EXCEPT !.live = m.live \ {m.cp[index]},
              !.cp[index] = IF index < m.nb - 1 THEN m.cp[m.nb - 1] ELSE m.cp[index],
              !.nb = m.nb - 1]

\* Lines 141-150: the scan of slots i.. with the running maximum
RECURSIVE DeepestFrom(_, _, _, _)
DeepestFrom(m, i, indexMaxPenetrationDepth, maxPenetrationDepth) ==
    IF i >= m.nb THEN indexMaxPenetrationDepth
    ELSE IF At(m, i).penetrationDepth > maxPenetrationDepth
         THEN DeepestFrom(m, i + 1, i, At(m, i).penetrationDepth)
         ELSE DeepestFrom(m, i + 1, indexMaxPenetrationDepth, maxPenetrationDepth)

getIndexOfDeepestPenetration(m, newContact) ==
    DeepestFrom(m, 0, -1, m.pool[newContact].penetrationDepth)

getMaxArea(area0, area1, area2, area3) ==
    IF area0 < area1
    THEN IF area1 < area2
         THEN IF area2 < area3 THEN 3 ELSE 2
         ELSE IF area1 < area3 THEN 3 ELSE 1
    ELSE IF area0 < area2
         THEN IF area2 < area3 THEN 3 ELSE 2
         ELSE IF area0 < area3 THEN 3 ELSE 0

\* Squared length of the cross product of newPoint - a and c - b, the slots
\* being given by their indices
Area(m, newPoint, a, b, c) ==
    lengthSquare(cross(VSub(newPoint, At(m, a).localPointOnBody1),
                       VSub(At(m, c).localPointOnBody1, At(m, b).localPointOnBody1)))

getIndexToRemove(m, indexMaxPenetration, newPoint) ==
    getMaxArea(IF indexMaxPenetration # 0 THEN Area(m, newPoint, 1, 2, 3) ELSE 0,
               IF indexMaxPenetration # 1 THEN Area(m, newPoint, 0, 2, 3) ELSE 0,
               IF indexMaxPenetration # 2 THEN Area(m, newPoint, 0, 1, 3) ELSE 0,
               IF indexMaxPenetration # 3 THEN Area(m, newPoint, 0, 1, 2) ELSE 0)

\* IsDuplicate with a strict comparison
IsDuplicate_Strict(m, contact) ==
    \E i \in 0..(m.nb - 1) :
        lengthSquare(VSub(At(m, i).worldPointOnBody1, m.pool[contact].worldPointOnBody1))
          < PERSISTENT_CONTACT_DIST_THRESHOLD * PERSISTENT_CONTACT_DIST_THRESHOLD

\* Lines 33-49: the new contact lies within the threshold of a stored one
IsDuplicate(m, contact) ==
    \E i \in 0..(m.nb - 1) :
        lengthSquare(VSub(At(m, i).worldPointOnBody1, m.pool[contact].worldPointOnBody1))
          <= PERSISTENT_CONTACT_DIST_THRESHOLD * PERSISTENT_CONTACT_DIST_THRESHOLD

\* Lines 59-60
StoreContact(m, contact) ==
    [m EXCEPT !.cp[m.nb] = contact, !.nb = m.nb + 1]

\* addContactPoint that returns on a duplicate without releasing it
addContactPoint_DuplicateNotReleased(m, contact) ==
    IF IsDuplicate(m, contact)
    THEN m
    ELSE IF m.nb = MAX_CONTACT_POINTS_IN_MANIFOLD
    THEN StoreContact(
             removeContactPoint(m,
                 getIndexToRemove(m, getIndexOfDeepestPenetration(m, contact),
                                  m.pool[contact].localPointOnBody1)),
             contact)
    ELSE StoreContact(m, contact)

addContactPoint(m, contact) ==
    IF IsDuplicate(m, contact)
    THEN [m EXCEPT !.live = m.live \ {contact}]
    ELSE IF m.nb = MAX_CONTACT_POINTS_IN_MANIFOLD
    THEN StoreContact(
             removeContactPoint(m,
                 getIndexToRemove(m, getIndexOfDeepestPenetration(m, contact),
                                  m.pool[contact].localPointOnBody1)),
             contact)
    ELSE StoreContact(m, contact)

\* Refreshed that also forgets the accumulated penetration impulse
Refreshed_ResetImpulse(c, w1, w2) ==
    [c EXCEPT !.worldPointOnBody1 = w1,
              !.worldPointOnBody2 = w2,
              !.penetrationDepth = dot(VSub(w1, w2), c.normal),
              !.penetrationImpulse = 0]

\* Lines 96-103: new world points and penetration depth of one contact
Refreshed(c, w1, w2) ==
    [c EXCEPT !.worldPointOnBody1 = w1,
              !.worldPointOnBody2 = w2,
              !.penetrationDepth = dot(VSub(w1, w2), c.normal)]

RefreshAll(m, transform1, transform2) ==
    [m EXCEPT !.pool = [id \in DOMAIN m.pool |->
                          IF id \in {m.cp[i] : i \in 0..(m.nb - 1)}
                          THEN Refreshed(m.pool[id],
                                         TransformPoint(transform1, m.pool[id].localPointOnBody1),
                                         TransformPoint(transform2, m.pool[id].localPointOnBody2))
                          ELSE m.pool[id]]]

\* IsStale without the test in the plane orthogonal to the normal
IsStale_NormalOnly(c) ==
    UnitsPerMetre * (-c.penetrationDepth)
      > PERSISTENT_CONTACT_DIST_THRESHOLD * PERSISTENT_CONTACT_DIST_THRESHOLD

\* Lines 111-129: the test that removes a contact; the first comparison is
\* between a length and the squared threshold, both in metres
IsStale(c) ==
    IF UnitsPerMetre * (-c.penetrationDepth)
         > PERSISTENT_CONTACT_DIST_THRESHOLD * PERSISTENT_CONTACT_DIST_THRESHOLD
    THEN TRUE
    ELSE lengthSquare(VSub(c.worldPointOnBody2,
                           VAdd(c.worldPointOnBody1, VScale(c.normal, -c.penetrationDepth))))
           > PERSISTENT_CONTACT_DIST_THRESHOLD * PERSISTENT_CONTACT_DIST_THRESHOLD

\* Lines 108-130: the loop from the last slot down to slot 0
RECURSIVE RemoveStale(_, _)
RemoveStale(m, i) ==
    IF i < 0 THEN m
    ELSE IF IsStale(At(m, i))
         THEN RemoveStale(removeContactPoint(m, i), i - 1)
         ELSE RemoveStale(m, i - 1)

\* Lines 108-130 with the reads of the loop: for each iteration the contact
\* point that m_contactPoints[i] points to, whether it is still allocated,
\* and whether the assertion of line 109 holds
ReadOf(m, i) == [contact |-> m.cp[i], live |-> m.cp[i] \in m.live, inRange |-> i < m.nb]

RECURSIVE RemoveStaleTrace(_, _, _)
RemoveStaleTrace(m, i, reads) ==
    IF i < 0 THEN [m |-> m, reads |-> reads]
    ELSE IF IsStale(At(m, i))
         THEN RemoveStaleTrace(removeContactPoint(m, i), i - 1, Append(reads, ReadOf(m, i)))
         ELSE RemoveStaleTrace(m, i - 1, Append(reads, ReadOf(m, i)))

update(m, transform1, transform2) ==
    IF m.nb = 0 THEN m
    ELSE RemoveStale(RefreshAll(m, transform1, transform2), m.nb - 1)

clear(m) == [m EXCEPT !.live = m.live \ {m.cp[i] : i \in 0..(m.nb - 1)}, !.nb = 0]

(***************************************************************************)
(* Ray cast.  A fraction is the numerator of a fraction over FracDen; the  *)
(* rays have directions that are multiples of FracDen, so that the clipped *)
(* end point is exact.                                                     *)
(***************************************************************************)
FracDen == 10
EpsilonNum == 1
EpsilonDen == 10000

\* ray.point1 + ray.maxFraction * (ray.point2 - ray.point1)
ClippedPoint2(r) ==
    VAdd(r.point1, <<(r.maxFraction * (r.point2[1] - r.point1[1])) \div FracDen,
                     (r.maxFraction * (r.point2[2] - r.point1[2])) \div FracDen,
                     (r.maxFraction * (r.point2[3] - r.point1[3])) \div FracDen>>)

\* Lines 117-129: the face normals of the AABB as separating axes
FaceAxesOverlap(e, d, m) ==
    /\ ~(Abs(m[1]) > e[1] + Abs(d[1]))
    /\ ~(Abs(m[2]) > e[2] + Abs(d[2]))
    /\ ~(Abs(m[3]) > e[3] + Abs(d[3]))

\* |cr| > ea * (adb + epsilon) + eb * (ada + epsilon)
CrossAxisSeparates(cr, ea, adb, eb, ada) ==
    EpsilonDen * Abs(cr) > EpsilonDen * (ea * adb + eb * ada) + EpsilonNum * (ea + eb)

\* Lines 130-146: the cross products of face normals and ray direction
CrossAxesOverlap(e, d, m) ==
    /\ ~CrossAxisSeparates(m[2] * d[3] - m[3] * d[2], e[2], Abs(d[3]), e[3], Abs(d[2]))
    /\ ~CrossAxisSeparates(m[3] * d[1] - m[1] * d[3], e[1], Abs(d[3]), e[3], Abs(d[1]))
    /\ ~CrossAxisSeparates(m[1] * d[2] - m[2] * d[1], e[1], Abs(d[2]), e[2], Abs(d[1]))

SegmentIntersects(aabb, point1, point2) ==
    /\ FaceAxesOverlap(VSub(aabb.max, aabb.min), VSub(point2, point1),
                       VSub(VSub(VAdd(point1, point2), aabb.min), aabb.max))
    /\ CrossAxesOverlap(VSub(aabb.max, aabb.min), VSub(point2, point1),
                        VSub(VSub(VAdd(point1, point2), aabb.min), aabb.max))

testRayIntersect(aabb, r) == SegmentIntersects(aabb, r.point1, ClippedPoint2(r))

\* Ray rayTemp(ray.point1, ray.point2, maxFraction)
RayTemp(r, maxF) == [r EXCEPT !.maxFraction = maxF]

\* raycast that pushes only the first child of an internal node
PushChildren_FirstOnly(s, node) == Append(s, node.children[1])

\* Lines 670-671; the top of the stack is the end of the sequence
PushChildren(s, node) == Append(Append(s, node.children[1]), node.children[2])

\* raycast that treats a hit fraction of zero like a negative one
AfterCallback_IgnoreZero(hitFraction, maxF) ==
    IF hitFraction > 0 /\ hitFraction < maxF
    THEN [return |-> FALSE, maxFraction |-> hitFraction]
    ELSE [return |-> FALSE, maxFraction |-> maxF]

\* raycast that takes every positive hit fraction as the new maxFraction
AfterCallback_AnyPositive(hitFraction, maxF) ==
    IF hitFraction = 0
    THEN [return |-> TRUE, maxFraction |-> maxF]
    ELSE IF hitFraction > 0
    THEN [return |-> FALSE, maxFraction |-> hitFraction]
    ELSE [return |-> FALSE, maxFraction |-> maxF]

\* Lines 648-665: what raycast does with the value the callback returns
AfterCallback(hitFraction, maxF) ==
    IF hitFraction = 0
    THEN [return |-> TRUE, maxFraction |-> maxF]
    ELSE IF hitFraction > 0 /\ hitFraction < maxF
    THEN [return |-> FALSE, maxFraction |-> hitFraction]
    ELSE [return |-> FALSE, maxFraction |-> maxF]

(***************************************************************************)
(* Impulses the contact solver stores in the manifold for the warm start   *)
(***************************************************************************)
\* ContactSolver::storeImpulses: for each slot the accumulated penetration
\* and friction impulses go into its contact point and the friction impulses
\* of the manifold are set. The values are derived from p and the slot so
\* that they all differ.
storeImpulses(m, p) ==
    [m EXCEPT !.pool = [id \in DOMAIN m.pool |->
                          IF \E i \in 0..(m.nb - 1) : m.cp[i] = id
                          THEN [m.pool[id] EXCEPT
                                  !.penetrationImpulse =
                                      p + (CHOOSE i \in 0..(m.nb - 1) : m.cp[i] = id),
                                  !.frictionImpulse1 =
                                      p + 10 + (CHOOSE i \in 0..(m.nb - 1) : m.cp[i] = id),
                                  !.frictionImpulse2 =
                                      p + 20 + (CHOOSE i \in 0..(m.nb - 1) : m.cp[i] = id)]
                          ELSE m.pool[id]]]

StoredFrictionImpulse(p) ==
    [frictionImpulse1 |-> p + 1, frictionImpulse2 |-> p + 2,
     frictionTwistImpulse |-> p + 3]

(***************************************************************************)
(* Smooth mesh filter of the concave against convex narrow phase.  Mesh    *)
(* coordinates are integers in metres; the triangle is collision shape 1   *)
(* and both shapes are at the identity pose.                               *)
(***************************************************************************)
\* computeBarycentricCoordinatesInTriangle(a, b, c, p, u, v, w): the
\* numerators of u, v, w over the common denominator den
Barycentric(a, b, c, p) ==
    [den |-> dot(VSub(b, a), VSub(b, a)) * dot(VSub(c, a), VSub(c, a))
               - dot(VSub(b, a), VSub(c, a)) * dot(VSub(b, a), VSub(c, a)),
     v   |-> dot(VSub(c, a), VSub(c, a)) * dot(VSub(p, a), VSub(b, a))
               - dot(VSub(b, a), VSub(c, a)) * dot(VSub(p, a), VSub(c, a)),
     w   |-> dot(VSub(b, a), VSub(b, a)) * dot(VSub(p, a), VSub(c, a))
               - dot(VSub(b, a), VSub(c, a)) * dot(VSub(p, a), VSub(b, a))]

\* approxEqual(num / den, 0, 0.0001)
ApproxZero(num, den) == Abs(num) * ZeroToleranceDen < Abs(den) * ZeroToleranceNum

\* Lines 141-147 for the barycentric coordinates bc
isUZero(bc) == ApproxZero(bc.den - bc.v - bc.w, bc.den)
isVZero(bc) == ApproxZero(bc.v, bc.den)
isWZero(bc) == ApproxZero(bc.w, bc.den)
nbZeros(bc) ==
    (IF isUZero(bc) THEN 1 ELSE 0) + (IF isVZero(bc) THEN 1 ELSE 0)
      + (IF isWZero(bc) THEN 1 ELSE 0)

\* The barycentric coordinates of the contact point of info in its triangle
BarycentricOf(info) ==
    Barycentric(info.triangleVertices[1], info.triangleVertices[2],
                info.triangleVertices[3],
                IF info.isFirstShapeTriangle THEN info.contactInfo.localPoint1
                ELSE info.contactInfo.localPoint2)

\* Line 152
VertexOfContact(info, bc) ==
    IF ~isUZero(bc) THEN info.triangleVertices[1]
    ELSE IF ~isVZero(bc) THEN info.triangleVertices[2]
    ELSE info.triangleVertices[3]

\* Lines 163-164
EdgeOfContact(info, bc) ==
    <<IF isUZero(bc) THEN info.triangleVertices[2] ELSE info.triangleVertices[1],
      IF isUZero(bc) THEN info.triangleVertices[3]
      ELSE IF isVZero(bc) THEN info.triangleVertices[3]
      ELSE info.triangleVertices[2]>>

hasVertexBeenProcessed(processed, vertex) == vertex \in processed

\* normalize() of a vector along one axis
Normalized(n) ==
    <<IF n[1] > 0 THEN 1 ELSE IF n[1] < 0 THEN -1 ELSE 0,
      IF n[2] > 0 THEN 1 ELSE IF n[2] < 0 THEN -1 ELSE 0,
      IF n[3] > 0 THEN 1 ELSE IF n[3] < 0 THEN -1 ELSE 0>>

\* Lines 191-200: the normal of the triangle, turned to the side of normal
TriangleNormal(tv, normal) ==
    IF dot(Normalized(cross(VSub(tv[2], tv[1]), VSub(tv[3], tv[1]))), normal) < 0
    THEN VScale(Normalized(cross(VSub(tv[2], tv[1]), VSub(tv[3], tv[1]))), -1)
    ELSE Normalized(cross(VSub(tv[2], tv[1]), VSub(tv[3], tv[1])))

\* Lines 177-213: the contact reported for a face contact
FaceContactInfo(info) ==
    IF info.isFirstShapeTriangle
    THEN [info.contactInfo EXCEPT
            !.normal = TriangleNormal(info.triangleVertices, info.contactInfo.normal),
            !.localPoint2 = VAdd(info.contactInfo.localPoint1,
                                 TriangleNormal(info.triangleVertices,
                                                info.contactInfo.normal))]
    ELSE [info.contactInfo EXCEPT
            !.normal = TriangleNormal(info.triangleVertices, info.contactInfo.normal),
            !.localPoint1 = VSub(info.contactInfo.localPoint2,
                                 TriangleNormal(info.triangleVertices,
                                                info.contactInfo.normal))]

\* Lines 150-217: whether the contact info is notified, given the vertices
\* processed so far
IsReported_EdgeIfOneEndNew(info, bc, processed) ==
    IF nbZeros(bc) = 2
    THEN ~hasVertexBeenProcessed(processed, VertexOfContact(info, bc))
    ELSE IF nbZeros(bc) = 1
    THEN \/ ~hasVertexBeenProcessed(processed, EdgeOfContact(info, bc)[1])
         \/ ~hasVertexBeenProcessed(processed, EdgeOfContact(info, bc)[2])
    ELSE TRUE

IsReported(info, bc, processed) ==
    IF nbZeros(bc) = 2
    THEN ~hasVertexBeenProcessed(processed, VertexOfContact(info, bc))
    ELSE IF nbZeros(bc) = 1
    THEN /\ ~hasVertexBeenProcessed(processed, EdgeOfContact(info, bc)[1])
         /\ ~hasVertexBeenProcessed(processed, EdgeOfContact(info, bc)[2])
    ELSE TRUE

\* the contact that is notified for info
NotifiedContact(info, bc) ==
    IF nbZeros(bc) \in {1, 2} THEN info.contactInfo ELSE FaceContactInfo(info)

\* addProcessedVertices that adds the first vertex of the triangle only
addProcessedVertices_FirstOnly(processed, info) ==
    processed \cup {info.triangleVertices[1]}

\* Lines 221-223
addProcessedVertices(processed, info) ==
    processed \cup {info.triangleVertices[1], info.triangleVertices[2],
                    info.triangleVertices[3]}

\* ContactsDepthCompare: the sequence s is in the order of std::sort
IsSortedByDepth(s) ==
    \A i \in 1..(Len(s) - 1) :
        s[i].contactInfo.penetrationDepth <= s[i + 1].contactInfo.penetrationDepth

(***************************************************************************)
(* Islands and sleeping.  The state of the bodies is one record w with a   *)
(* function of the bodies per attribute; time is counted in steps.         *)
(***************************************************************************)
\* The settings of the world: time-before-sleep in steps and the speed up to
\* which a body accumulates sleep time
WorldSettings == [timeBeforeSleep |-> 2, sleepVelocity |-> 1]

\* Body::setIsSleeping and RigidBody::setIsSleeping: a change of the flag
\* resets the sleep time; a body put to sleep loses velocity, force and torque
setIsSleeping(w, body, isSleeping) ==
    IF isSleeping
    THEN [w EXCEPT !.isSleeping[body] = TRUE, !.sleepTime[body] = 0,
                   !.velocity[body] = 0, !.force[body] = FALSE, !.torque[body] = FALSE]
    ELSE [w EXCEPT !.isSleeping[body] = FALSE,
                   !.sleepTime[body] = IF w.isSleeping[body] THEN 0 ELSE w.sleepTime[body]]

\* applyForce that does not wake the body
applyForce_NoWake(w, body) ==
    IF w.type[body] # "dynamic" THEN w
    ELSE [w EXCEPT !.force[body] = TRUE]

\* RigidBody::applyForceToCenterOfMass and RigidBody::applyForce: nothing for
\* a body that is not dynamic; a sleeping body is woken; the force is added
applyForce(w, body) ==
    IF w.type[body] # "dynamic" THEN w
    ELSE [setIsSleeping(w, body, FALSE) EXCEPT !.force[body] = TRUE]

\* RigidBody::applyTorque
applyTorque(w, body) ==
    IF w.type[body] # "dynamic" THEN w
    ELSE [setIsSleeping(w, body, FALSE) EXCEPT !.torque[body] = TRUE]

\* RigidBody::setLinearVelocity and setAngularVelocity: nothing for a static
\* body; the velocity is set and the body is woken
setVelocity(w, body, v) ==
    IF w.type[body] = "static" THEN w
    ELSE [setIsSleeping(w, body, FALSE) EXCEPT !.velocity[body] = v]

\* Step 1 of the world update: forces and torques accelerate the awake
\* dynamic bodies
IntegrateForces(w) ==
    [w EXCEPT !.velocity = [b \in DOMAIN w.velocity |->
                              IF /\ w.type[b] = "dynamic"
                                 /\ ~w.isSleeping[b]
                                 /\ (w.force[b] \/ w.torque[b])
                              THEN 2 ELSE w.velocity[b]]]

\* addBody that overwrites the bodies of the island
addBody_Overwrite(island, body) == {body}

\* Island::addBody: m_bodies[m_numberBodies] = body; m_numberBodies++
addBody(island, body) == island \cup {body}

\* The dynamic bodies not yet marked that touch a marked body
Frontier(w, pairs, marked) ==
    {c \in DOMAIN w.type :
        /\ c \notin marked
        /\ w.type[c] = "dynamic"
        /\ \E b \in marked : {b, c} \in pairs}

\* The flood fill over the contact graph from the bodies marked: static
\* bodies end it, every body reached is added to the island
RECURSIVE FloodFill(_, _, _, _)
FloodFill(w, pairs, island, marked) ==
    IF Frontier(w, pairs, marked) = {} THEN island
    ELSE FloodFill(w, pairs,
                   addBody(island, CHOOSE c \in Frontier(w, pairs, marked) : TRUE),
                   marked \cup {CHOOSE c \in Frontier(w, pairs, marked) : TRUE})

\* The islands of a step: one from each awake dynamic body
computeIslands(w, pairs) ==
    {FloodFill(w, pairs, addBody({}, seed), {seed}) :
        seed \in {b \in DOMAIN w.type : w.type[b] = "dynamic" /\ ~w.isSleeping[b]}}

\* The sleeping bodies of the islands are woken before they are added
RECURSIVE WakeAll(_, _)
WakeAll(w, bodies) ==
    IF bodies = {} THEN w
    ELSE WakeAll(setIsSleeping(w, CHOOSE b \in bodies : TRUE, FALSE),
                 bodies \ {CHOOSE b \in bodies : TRUE})

\* The solver leaves the bodies of the islands with the speeds of solved
Solve(w, bodies, solved) ==
    [w EXCEPT !.velocity = [b \in DOMAIN w.velocity |->
                              IF b \in bodies THEN solved[b] ELSE w.velocity[b]]]

\* The sleep time of a body of an island after the step
SleepTimeAfter(w, b) ==
    IF w.velocity[b] * w.velocity[b]
         > WorldSettings.sleepVelocity * WorldSettings.sleepVelocity
    THEN 0
    ELSE w.sleepTime[b] + 1

RECURSIVE SleepAll(_, _)
SleepAll(w, bodies) ==
    IF bodies = {} THEN w
    ELSE SleepAll(setIsSleeping(w, CHOOSE b \in bodies : TRUE, TRUE),
                  bodies \ {CHOOSE b \in bodies : TRUE})

\* The bodies of the islands where every body has been slow for the
\* time-before-sleep
BodiesToSleep(w, isl) ==
    UNION {island \in isl :
             \A b \in island : SleepTimeAfter(w, b) >= WorldSettings.timeBeforeSleep}

\* Step 11 of the world update: the sleep times of the bodies of the islands
\* are updated, then the islands at rest are put to sleep; step 12 clears
\* the forces and torques
updateSleepingBodies(w, isl) ==
    [SleepAll([w EXCEPT !.sleepTime = [b \in DOMAIN w.sleepTime |->
                                         IF b \in UNION isl THEN SleepTimeAfter(w, b)
                                         ELSE w.sleepTime[b]]],
              BodiesToSleep(w, isl))
       EXCEPT !.force = [b \in DOMAIN w.force |-> FALSE],
              !.torque = [b \in DOMAIN w.torque |-> FALSE]]

(***************************************************************************)
(* Pool allocator                                                          *)
(***************************************************************************)
NULL_POINTER == <<-1, -1>>

\* Lines 39-41
mUnitSizes == [i \in 0..(NB_HEAPS - 1) |-> (i + 1) * UnitGranularity]

\* Lines 48-54 with a strict comparison
MapEntry_Strict(i, j) == IF i < mUnitSizes[j] THEN j ELSE j + 1

\* Lines 48-54: the heap index of size i, j being the index of size i - 1
MapEntry(i, j) == IF i <= mUnitSizes[j] THEN j ELSE j + 1

\* Lines 130-139: the units of a new block but the first, in a list
NewUnits(block, unitSize) ==
    [i \in 1..((BLOCK_SIZE \div unitSize) - 1) |-> <<block, unitSize * i>>]

\* Lines 108-144: no free unit in the heap; a new block is divided in units,
\* its first unit is returned and the others are the free list of the heap
AllocateNewBlock(a, size, indexHeap) ==
    [a EXCEPT !.pointer = <<Len(a.blocks), 0>>,
              !.free[indexHeap] = NewUnits(Len(a.blocks), mUnitSizes[indexHeap]),
              !.blocks = Append(a.blocks, mUnitSizes[indexHeap]),
              !.nbAllocatedBlocks = IF Len(a.blocks) = a.nbAllocatedBlocks
                                    THEN a.nbAllocatedBlocks + NbBlocksStep
                                    ELSE a.nbAllocatedBlocks,
              !.live = a.live \cup {<<<<Len(a.blocks), 0>>, size>>}]

\* Lines 100-107: the head of the free list of the heap is returned
AllocateFreeUnit(a, size, indexHeap) ==
    [a EXCEPT !.pointer = Head(a.free[indexHeap]),
              !.free[indexHeap] = Tail(a.free[indexHeap]),
              !.live = a.live \cup {<<Head(a.free[indexHeap]), size>>}]

\* MemoryAllocator::allocate; the pointer returned is a.pointer
allocate(a, size) ==
    IF size = 0 THEN [a EXCEPT !.pointer = NULL_POINTER]
    ELSE IF size > MAX_UNIT_SIZE
    THEN [a EXCEPT !.pointer = <<-1, a.nbSystem>>,
                   !.system = a.system \cup {<<-1, a.nbSystem>>},
                   !.nbSystem = a.nbSystem + 1,
                   !.live = a.live \cup {<<<<-1, a.nbSystem>>, size>>}]
    ELSE IF a.free[a.map[size]] # <<>>
    THEN AllocateFreeUnit(a, size, a.map[size])
    ELSE AllocateNewBlock(a, size, a.map[size])

\* release that puts the unit at the end of the free list of its heap
release_AtEnd(a, pointer, size) ==
    IF size = 0 THEN [a EXCEPT !.pointer = pointer]
    ELSE IF size > MAX_UNIT_SIZE
    THEN [a EXCEPT !.pointer = pointer,
                   !.system = a.system \ {pointer},
                   !.live = a.live \ {<<pointer, size>>}]
    ELSE [a EXCEPT !.pointer = pointer,
                   !.free[a.map[size]] = Append(a.free[a.map[size]], pointer),
                   !.live = a.live \ {<<pointer, size>>}]

\* MemoryAllocator::release
release(a, pointer, size) ==
    IF size = 0 THEN [a EXCEPT !.pointer = pointer]
    ELSE IF size > MAX_UNIT_SIZE
    THEN [a EXCEPT !.pointer = pointer,
                   !.system = a.system \ {pointer},
                   !.live = a.live \ {<<pointer, size>>}]
    ELSE [a EXCEPT !.pointer = pointer,
                   !.free[a.map[size]] = <<pointer>> \o a.free[a.map[size]],
                   !.live = a.live \ {<<pointer, size>>}]

(***************************************************************************)
(* The structural checker of the tree (DynamicAABBTree.cpp, debug builds). *)
(* checkNode and check give the line of the first assertion that fails,    *)
(* NoAssertionFails when they return.                                      *)
(***************************************************************************)
NoAssertionFails == "none"

\* the result of two checks made one after the other
ThenCheck(first, second) == IF first # NoAssertionFails THEN first ELSE second

\* Lines 715-721, the branch of a leaf
CheckLeaf(t, nodeID) ==
    IF t.nodes[nodeID].children[1] # NULL_TREE_NODE THEN "line 718"
    ELSE IF t.nodes[nodeID].children[2] # NULL_TREE_NODE THEN "line 719"
    ELSE IF t.nodes[nodeID].height # 0 THEN "line 720"
    ELSE NoAssertionFails

\* Lines 725-742, the assertions on an internal node before the recursion
CheckInternal(t, nodeID, leftChild, rightChild) ==
    IF ~(0 <= leftChild /\ leftChild < t.alloc) THEN "line 725"
    ELSE IF ~(0 <= rightChild /\ rightChild < t.alloc) THEN "line 726"
    ELSE IF t.nodes[leftChild].parentID # nodeID THEN "line 729"
    ELSE IF t.nodes[rightChild].parentID # nodeID THEN "line 730"
    ELSE IF t.nodes[nodeID].height
              # 1 + Max2(t.nodes[leftChild].height, t.nodes[rightChild].height)
         THEN "line 734"
    ELSE IF mergeTwoAABBs(t.nodes[leftChild].aabb, t.nodes[rightChild].aabb).min
              # t.nodes[nodeID].aabb.min
         THEN "line 739"
    ELSE IF mergeTwoAABBs(t.nodes[leftChild].aabb, t.nodes[rightChild].aabb).max
              # t.nodes[nodeID].aabb.max
         THEN "line 740"
    ELSE NoAssertionFails

\* checkNode(nodeID), lines 698-748
RECURSIVE checkNode(_, _)
checkNode(t, nodeID) ==
    IF nodeID = NULL_TREE_NODE THEN NoAssertionFails
    ELSE IF nodeID = t.root /\ t.nodes[nodeID].parentID # NULL_TREE_NODE THEN "line 704"
    ELSE IF isLeaf(t.nodes[nodeID]) THEN "line 709"
    ELSE IF ~(t.nodes[nodeID].height >= 0) THEN "line 713"
    ELSE IF ~(getVolume(t.nodes[nodeID].aabb) > 0) THEN "line 714"
    ELSE IF isLeaf(t.nodes[nodeID]) THEN CheckLeaf(t, nodeID)
    ELSE ThenCheck(CheckInternal(t, nodeID, t.nodes[nodeID].children[1],
                                 t.nodes[nodeID].children[2]),
                   ThenCheck(checkNode(t, t.nodes[nodeID].children[1]),
                             checkNode(t, t.nodes[nodeID].children[2])))

\* Lines 685-692: the loop over the free nodes; nextNodeID shares the memory
\* of parentID
RECURSIVE CheckFreeNodes(_, _, _)
CheckFreeNodes(t, freeNodeID, nbFreeNodes) ==
    IF freeNodeID = NULL_TREE_NODE
    THEN IF t.nb + nbFreeNodes = t.alloc THEN NoAssertionFails ELSE "line 694"
    ELSE IF ~(0 <= freeNodeID /\ freeNodeID < t.alloc) THEN "line 689"
    ELSE IF nbFreeNodes >= t.alloc THEN "no return"
    ELSE CheckFreeNodes(t, t.nodes[freeNodeID].parentID, nbFreeNodes + 1)

\* check(), lines 679-695
check(t) == ThenCheck(checkNode(t, t.root), CheckFreeNodes(t, t.free, 0))

(***************************************************************************)
(* The point-inside test of the cone (ConeShape.hpp).  radiusHeight is the *)
(* fraction num / den with den > 0; the comparison with its square is made *)
(* on the cross products.                                                  *)
(***************************************************************************)
NoCone == [m_radius |-> 0, m_halfHeight |-> 0]
NoAnswer == <<>>
NoConeTransform == [position |-> <<0, 0, 0>>, turns |-> 0]

\* Lines 145-146
radiusHeight(shape, p) ==
    [num |-> shape.m_radius * (-p[2] + shape.m_halfHeight),
     den |-> shape.m_halfHeight * 2]

\* x^2 + z^2 < radiusHeight^2, a comparison that accepts the surface too
InsideRadius_OrOn(p, rh) ==
    (p[1] * p[1] + p[3] * p[3]) * (rh.den * rh.den) <= rh.num * rh.num

\* Line 148: x^2 + z^2 < radiusHeight^2
InsideRadius(p, rh) ==
    (p[1] * p[1] + p[3] * p[3]) * (rh.den * rh.den) < rh.num * rh.num

\* ConeShape::testPointInside, lines 144-149
ConeTestPointInside(shape, p) ==
    /\ p[2] < shape.m_halfHeight /\ p[2] > -shape.m_halfHeight
    /\ InsideRadius(p, radiusHeight(shape, p))

\* ProxyShape::testPointInside(worldPoint): the point is taken to the space
\* of the shape by the inverse of body transform * local-to-body transform
ProxyTestPointInside(shape, body, local, point) ==
    ConeTestPointInside(shape,
        InverseTransformPoint(local, InverseTransformPoint(body, point)))

\* CollisionBody::testPointInside(worldPoint): true when one of the proxy
\* shapes of the body contains the point; proxies is the list of the
\* local-to-body transforms of its shapes
BodyTestPointInside(shape, body, proxies, point) ==
    \E i \in 1..Len(proxies) : ProxyTestPointInside(shape, body, proxies[i], point)

(***************************************************************************)
(* The assertions of insertLeafNode and removeLeafNode: each operator      *)
(* follows the function it names and gives the line of the first assertion *)
(* that fails, NoAssertionFails when none does.                            *)
(***************************************************************************)
\* Lines 313-324 and 332: the loop of insertLeafNode from currentNodeID up
\* to the root, for the new leaf nodeID
RECURSIVE InsertLoopAsserts(_, _, _)
InsertLoopBody(b, nodeID) ==
    IF ~isLeaf(b.t.nodes[nodeID]) THEN "line 313"
    ELSE IF isLeaf(b.t.nodes[b.id]) THEN "line 315"
    ELSE IF b.t.nodes[b.id].children[1] = NULL_TREE_NODE THEN "line 318"
    ELSE IF b.t.nodes[b.id].children[2] = NULL_TREE_NODE THEN "line 319"
    ELSE IF ~(1 + Max2(b.t.nodes[b.t.nodes[b.id].children[1]].height,
                       b.t.nodes[b.t.nodes[b.id].children[2]].height) > 0)
    THEN "line 324"
    ELSE InsertLoopAsserts(RefitNode(b.t, b.id, b.t.nodes[b.id].children[1],
                                     b.t.nodes[b.id].children[2]),
                           b.t.nodes[b.id].parentID, nodeID)

InsertLoopAsserts(t, currentNodeID, nodeID) ==
    IF currentNodeID = NULL_TREE_NODE
    THEN IF isLeaf(t.nodes[nodeID]) THEN NoAssertionFails ELSE "line 332"
    ELSE InsertLoopBody(balanceSubTreeAtNode(t, currentNodeID), nodeID)

\* Lines 275-308; a is the result of allocateNode for the new parent
InsertBesideAsserts(a, nodeID, siblingNode) ==
    IF ~(a.t.nodes[siblingNode].height + 1 > 0) THEN "line 282"
    ELSE IF /\ a.t.nodes[siblingNode].parentID # NULL_TREE_NODE
            /\ isLeaf(a.t.nodes[a.t.nodes[siblingNode].parentID])
    THEN "line 286"
    ELSE IF isLeaf(LinkNewParent(a.t, nodeID, siblingNode, a.id,
                                 a.t.nodes[siblingNode].parentID).nodes[a.id])
    THEN "line 308"
    ELSE InsertLoopAsserts(LinkNewParent(a.t, nodeID, siblingNode, a.id,
                                         a.t.nodes[siblingNode].parentID),
                           a.id, nodeID)

\* insertLeafNode(nodeID), lines 206-333
insertLeafNodeAsserts(t, nodeID, g) ==
    IF t.root = NULL_TREE_NODE THEN NoAssertionFails
    ELSE InsertBesideAsserts(allocateNode(t, g), nodeID,
                             FindSibling(t, t.root, t.nodes[nodeID].aabb))

\* Lines 374-393: the loop of removeLeafNode from currentNodeID up to the root
RECURSIVE RemoveLoopAsserts(_, _)
RemoveLoopBody(b) ==
    IF isLeaf(b.t.nodes[b.id]) THEN "line 379"
    ELSE IF ~(1 + Max2(b.t.nodes[b.t.nodes[b.id].children[1]].height,
                       b.t.nodes[b.t.nodes[b.id].children[2]].height) > 0)
    THEN "line 390"
    ELSE RemoveLoopAsserts(RefitNode(b.t, b.id, b.t.nodes[b.id].children[1],
                                     b.t.nodes[b.id].children[2]),
                           b.t.nodes[b.id].parentID)

RemoveLoopAsserts(t, currentNodeID) ==
    IF currentNodeID = NULL_TREE_NODE THEN NoAssertionFails
    ELSE RemoveLoopBody(balanceSubTreeAtNode(t, currentNodeID))

\* Lines 358-395
UnlinkParentAsserts(t, parentNodeID, grandParentNodeID, siblingNodeID) ==
    IF grandParentNodeID = NULL_TREE_NODE THEN NoAssertionFails
    ELSE IF /\ t.nodes[grandParentNodeID].children[1] # parentNodeID
            /\ t.nodes[grandParentNodeID].children[2] # parentNodeID
    THEN "line 365"
    ELSE RemoveLoopAsserts(
             releaseNode([ReplaceChild(t, grandParentNodeID, parentNodeID, siblingNodeID)
                            EXCEPT !.nodes[siblingNodeID].parentID = grandParentNodeID],
                         parentNodeID),
             grandParentNodeID)

\* removeLeafNode(nodeID), lines 336-402
removeLeafNodeAsserts(t, nodeID) ==
    IF ~(nodeID >= 0 /\ nodeID < t.alloc) THEN "line 338"
    ELSE IF ~isLeaf(t.nodes[nodeID]) THEN "line 339"
    ELSE IF t.root = nodeID THEN NoAssertionFails
    ELSE UnlinkParentAsserts(t, t.nodes[nodeID].parentID,
                             t.nodes[t.nodes[nodeID].parentID].parentID,
                             SiblingOf(t, t.nodes[nodeID].parentID, nodeID))

\* Lines 168-198 of updateObject: removeLeafNode, then insertLeafNode of the
\* leaf with its new fat AABB
ReinsertAsserts(t, nodeID, fat, g) ==
    ThenCheck(removeLeafNodeAsserts(t, nodeID),
              insertLeafNodeAsserts([removeLeafNode(t, nodeID) EXCEPT
                                        !.nodes[nodeID].aabb = fat],
                                    nodeID, g))

(***************************************************************************)
(* Overlap query of the tree                                               *)
(***************************************************************************)
\* AABB::testCollision that takes boxes that only touch as separate
testCollision_Strict(self, aabb) ==
    /\ self.max[1] > aabb.min[1] /\ aabb.max[1] > self.min[1]
    /\ self.max[2] > aabb.min[2] /\ aabb.max[2] > self.min[2]
    /\ self.max[3] > aabb.min[3] /\ aabb.max[3] > self.min[3]

\* AABB::testCollision(aabb), declared in AABB.hpp: the boxes are separate
\* when, on some axis, one ends before the other begins
testCollision(self, aabb) ==
    /\ ~(self.max[1] < aabb.min[1] \/ aabb.max[1] < self.min[1])
    /\ ~(self.max[2] < aabb.min[2] \/ aabb.max[2] < self.min[2])
    /\ ~(self.max[3] < aabb.min[3] \/ aabb.max[3] < self.min[3])
(***************************************************************************)
(* Inputs                                                                  *)
(***************************************************************************)
Box(x) == [min |-> <<x, 0, 0>>, max |-> <<x + 10, 10, 10>>]

\* Tight AABBs of the shapes that are added: two near boxes and a far one
AABBSet == {Box(0), Box(30), Box(200)}

\* Arguments of updateObject: a small move, a move with a predicted
\* displacement, a forced reinsertion
UpdateSet ==
    {[aabb |-> Box(0),  displacement |-> <<0, 0, 0>>,    forceReinsert |-> FALSE],
     [aabb |-> Box(31), displacement |-> <<-10, 0, 10>>, forceReinsert |-> FALSE],
     [aabb |-> Box(200), displacement |-> <<0, 0, 0>>,   forceReinsert |-> TRUE]}

\* Possible contents of freshly allocated, not yet initialised node memory
MallocFill == {0, 99}

\* The two integers a caller stores in the leaf it adds as its k-th operation
DataOf(k) == <<100 + k, 200 + k>>

NoHist == [op |-> "none", id |-> NULL_TREE_NODE, ret |-> FALSE, inside |-> FALSE,
           preNb |-> 0, preHeight |-> -1, rot |-> 0]


(***************************************************************************)
(* Inputs of the manifold                                                  *)
(***************************************************************************)
\* What the narrow phase reports: a point on body 1 in local coordinates,
\* the world-space normal and the penetration depth
Info(x, y, depth) ==
    [localPoint1 |-> <<x, y, 0>>, normal |-> <<0, 0, 1>>, penetrationDepth |-> depth]

ContactInfoSet ==
    {Info(0, 0, 1), Info(100, 0, 2), Info(0, 100, 3), Info(100, 100, 1),
     Info(50, 50, 5), Info(3, 0, 2)}

\* Poses of the two bodies: at rest, moved together by a quarter turn and a
\* translation, body 2 moved away along the normal
PoseSet ==
    {[t1 |-> Identity, t2 |-> Identity],
     [t1 |-> [turns |-> 1, position |-> <<10, 0, 0>>],
      t2 |-> [turns |-> 1, position |-> <<10, 0, 0>>]],
     [t1 |-> Identity, t2 |-> [turns |-> 0, position |-> <<0, 0, 2>>]]}

\* Lines 18-19: the friction impulses of the manifold after construction
NoFrictionImpulse == [frictionImpulse1 |-> 0, frictionImpulse2 |-> 0, frictionTwistImpulse |-> 0]

NoContact == ContactPoint(Info(0, 0, 0), Identity, Identity)

NoManifoldHist == [op |-> "none", contact |-> 0, index |-> -1, preNb |-> 0,
                   preLive |-> {}]


\* Tight AABBs placed along the ray casts: two boxes on the x axis, as the
\* spheres of radius 1 at x = 2 and x = 5, and a box off the axis
RayBox(x, y) == [min |-> <<x, y - 10, -10>>, max |-> <<x + 20, y + 10, 10>>]

RayBoxSet == {RayBox(10, 0), RayBox(40, 0), RayBox(40, 40)}

\* A ray along the x axis and a diagonal ray in the plane z = 0
RaySet ==
    {[point1 |-> <<-10, 0, 0>>, point2 |-> <<90, 0, 0>>, maxFraction |-> FracDen],
     [point1 |-> <<-10, -40, 0>>, point2 |-> <<90, 60, 0>>, maxFraction |-> FracDen]}

NoRay == [point1 |-> <<0, 0, 0>>, point2 |-> <<0, 0, 0>>, maxFraction |-> 0]

\* The value a callback returns for a shape the ray misses
Miss == -FracDen

\* The fractions at which a shape enclosed in the tight AABB of the leaf can
\* be hit by the ray r: the point of the ray lies in the tight AABB
HitFractions(t, nodeID, r) ==
    {f \in 1..r.maxFraction :
        contains(Inflate(t.nodes[nodeID].aabb, -mExtraAABBGap),
                 [min |-> ClippedPoint2(RayTemp(r, f)),
                  max |-> ClippedPoint2(RayTemp(r, f))])}

\* The assignments of a hit fraction or Miss to the leaves objs
RECURSIVE HitMaps(_, _, _)
ExtendHitMaps(t, objs, o, r) ==
    {h @@ (o :> f) : h \in HitMaps(t, objs \ {o}, r),
                     f \in HitFractions(t, o, r) \cup {Miss}}

HitMaps(t, objs, r) ==
    IF objs = {} THEN {<<>>}
    ELSE ExtendHitMaps(t, objs, CHOOSE o \in objs : TRUE, r)

\* Values returned by an arbitrary callback
CallbackReturnSet == {Miss, 0, 3, 7}

\* Contact positions on body 1 for a manifold that is filled: five points on
\* a line and one point off the line
FilledPointSet ==
    {<<0, 0>>, <<100, 0>>, <<200, 0>>, <<300, 0>>, <<400, 0>>, <<0, 100>>}

\* Penetration depths of the four contacts of a filled manifold: the contact
\* of slot deepest is deeper than the other three
FilledDepth(k, deepest) == IF k = deepest THEN 5 ELSE 2

\* Penetration depths of a contact added to a filled manifold: less deep than all, between and
\* deeper than the contacts stored
NewDepthSet == {1, 3, 9}

\* Poses for the refresh of a filled manifold: those of PoseSet, body 2 slid
\* in the contact plane by the threshold and by more than the threshold, and
\* body 2 slid by the threshold and moved away along the normal
FilledPoseSet ==
    PoseSet \cup
    {[t1 |-> Identity, t2 |-> [turns |-> 0, position |-> <<3, 0, 0>>]],
     [t1 |-> Identity, t2 |-> [turns |-> 0, position |-> <<4, 0, 0>>]],
     [t1 |-> Identity, t2 |-> [turns |-> 0, position |-> <<3, 0, 3>>]]}

\* Impulses accumulated by the solver for slot 0
SolverImpulseSet == {7}

(***************************************************************************)
(* Inputs of the smooth mesh filter                                        *)
(***************************************************************************)
\* A planar mesh of three triangles: the first two share the edge from
\* (0,0,0) to (6,6,0), the first and the third share the edge from (6,0,0) to
\* (6,6,0); the third triangle is wound the other way round
MeshTriangles ==
    <<<< <<0, 0, 0>>, <<6, 0, 0>>, <<6, 6, 0>> >>,
      << <<0, 0, 0>>, <<6, 6, 0>>, <<0, 6, 0>> >>,
      << <<6, 0, 0>>, <<6, 6, 0>>, <<12, 0, 0>> >> >>

Halfway(a, b) == <<(a[1] + b[1]) \div 2, (a[2] + b[2]) \div 2, (a[3] + b[3]) \div 2>>

\* Contact points on a triangle: its vertices, the middle of each edge and
\* its centre
TrianglePointSet(tv) ==
    {tv[1], tv[2], tv[3], Halfway(tv[1], tv[2]), Halfway(tv[2], tv[3]),
     Halfway(tv[1], tv[3]),
     <<(tv[1][1] + tv[2][1] + tv[3][1]) \div 3, (tv[1][2] + tv[2][2] + tv[3][2]) \div 3,
       (tv[1][3] + tv[2][3] + tv[3][3]) \div 3>>}

SmoothDepthSet == {1, 2}

\* The contact a narrow-phase algorithm notifies for the triangle tv, as
\* SmoothCollisionNarrowPhaseCallback::notifyContact stores it (lines 241-272)
SmoothMeshContactInfo(tv, p, depth, isFirstShapeTriangle) ==
    [triangleVertices |-> tv,
     isFirstShapeTriangle |-> isFirstShapeTriangle,
     contactInfo |->
        [localPoint1 |-> IF isFirstShapeTriangle THEN p ELSE <<0, 0, 0>>,
         localPoint2 |-> IF isFirstShapeTriangle THEN <<0, 0, 0>> ELSE p,
         normal |-> <<0, 0, 1>>,
         penetrationDepth |-> depth]]

\* What the test of triangle k can yield: no contact or one contact
TriangleTestSet(k, isFirstShapeTriangle) ==
    {<<>>} \cup
    {<<SmoothMeshContactInfo(MeshTriangles[k], p, depth, isFirstShapeTriangle)>> :
        p \in TrianglePointSet(MeshTriangles[k]), depth \in SmoothDepthSet}

\* The orders std::sort may give to the contacts of raw
SortedSet(raw) ==
    {s \in [1..Len(raw) -> {raw[i] : i \in 1..Len(raw)}] :
        /\ \A i, j \in 1..Len(raw) : i # j => s[i] # s[j]
        /\ IsSortedByDepth(s)}

(***************************************************************************)
(* Inputs of the world of sleeping bodies                                  *)
(***************************************************************************)
BodySet == {1, 2, 3}

\* Worlds of three dynamic bodies, or of two dynamic bodies and a static one
BodyTypeSet ==
    {[b \in BodySet |-> "dynamic"],
     [b \in BodySet |-> IF b = 3 THEN "static" ELSE "dynamic"]}

\* What the collision detection can find: any set of pairs of bodies
PairSet == {{a, b} : a, b \in BodySet} \ {{b} : b \in BodySet}

\* Speeds: at rest, below the sleep threshold, above it
SpeedSet == {0, 1, 2}

\* Speeds the solver leaves: below or above the sleep threshold
SolvedSpeedSet == {1, 2}

NoWorldHist == [op |-> "none", body |-> 0]

(***************************************************************************)
(* Inputs of the allocator                                                 *)
(***************************************************************************)
\* Request sizes: nothing, the least size, the two sides of the border
\* between the first two size classes, the largest pooled size and two sizes
\* beyond it
AllocSizeSet == {0, 1, UnitGranularity, UnitGranularity + 1, MAX_UNIT_SIZE,
                 MAX_UNIT_SIZE + 1, 2 * MAX_UNIT_SIZE}

NoAllocHist == [op |-> "none", size |-> 0, pointer |-> NULL_POINTER]

(***************************************************************************)
(* Inputs of the point-inside test of the cone                             *)
(***************************************************************************)
\* the cone of TestPointInside (radius 2, height 6) and a smaller one
ConeSet == {[m_radius |-> 20, m_halfHeight |-> 30], [m_radius |-> 10, m_halfHeight |-> 5]}

\* coordinates around the surface of the cones
ConeXSet == {-19, -10, -9, 0, 5, 10, 11, 20}
ConeYSet == {-31, -30, -29, -5, 0, 4, 29, 30, 31}
ConeZSet == {-10, 0, 2, 19}

ConeTransformSet == {[position |-> <<0, 0, 0>>, turns |-> 0],
                     [position |-> <<10, -40, -30>>, turns |-> 1]}

(***************************************************************************)
(* Inputs of updateObject with a displacement                              *)
(***************************************************************************)
\* the displacement along one axis: backwards, none, forwards
DisplacementAxisSet == {-10, 0, 20}

DisplacementSet == DisplacementAxisSet \X DisplacementAxisSet \X DisplacementAxisSet

\* new tight AABBs: inside the fat AABB of Box(0), overlapping it, far away
MovedAABBSet == {Box(0), Box(5), Box(200)}

\* Query AABBs: left of every box and touching the fat AABB of Box(0), between
\* Box(0) and Box(30) touching both fat AABBs, between them touching neither,
\* across all the boxes, and above every box
Query(x1, x2, y) == [min |-> <<x1, y, 0>>, max |-> <<x2, y + 10, 10>>]

QuerySet == {Query(-5, -1, 0), Query(11, 29, 0), Query(12, 28, 0), Query(5, 205, 0),
             Query(5, 205, 50)}
(***************************************************************************)
(* Initial conditions                                                      *)
(***************************************************************************)
\* the tree b.t holding the objects b.objects after k operations
TreeIs(b, k) ==
    /\ mNodes = b.t.nodes
    /\ m_rootNodeID = b.t.root
    /\ mFreeNodeID = b.t.free
    /\ mNbNodes = b.t.nb
    /\ mNbAllocatedNodes = b.t.alloc
    /\ objects = b.objects
    /\ hist = NoHist
    /\ nOps = k

\* the manifold after its construction, the bodies at rest
EmptyManifold ==
    /\ m_contactPoints = [i \in 0..(MAX_CONTACT_POINTS_IN_MANIFOLD - 1) |-> 0]
    /\ m_nbContactPoints = 0
    /\ contactPool = [id \in 1..MaxManifoldOps |-> NoContact]
    /\ liveContacts = {}
    /\ bodyTransform1 = Identity
    /\ bodyTransform2 = Identity
    /\ mhist = NoManifoldHist
    /\ mOps = 0
    /\ m_frictionImpulse = NoFrictionImpulse

\* no ray cast has been started
RayIdle ==
    /\ ray = NoRay
    /\ rayPc = "idle"
    /\ stack = <<>>
    /\ maxFraction = 0
    /\ calls = <<>>
    /\ hitOf = <<>>
    /\ callbackMode = "none"


\* no narrow-phase test of a concave shape has been started
SmoothIdle ==
    /\ isSmoothMeshCollisionEnabled = FALSE
    /\ triangleContacts = <<>>
    /\ contactPoints = <<>>
    /\ smoothIt = 0
    /\ processTriangleVertices = {}
    /\ notified = <<>>
    /\ reported = <<>>
    /\ smoothPc = "idle"

\* a world of bodies that are awake and at rest, no step performed
WorldIs(types) ==
    /\ bodyType = types
    /\ m_isSleeping = [b \in BodySet |-> FALSE]
    /\ m_sleepTime = [b \in BodySet |-> 0]
    /\ velocity = [b \in BodySet |-> 0]
    /\ m_externalForce = [b \in BodySet |-> FALSE]
    /\ m_externalTorque = [b \in BodySet |-> FALSE]
    /\ contactPairs = {}
    /\ islands = {}
    /\ worldPc = "idle"
    /\ whist = NoWorldHist
    /\ worldSteps = 0
    /\ bodyCalls = 0

WorldIdle == WorldIs([b \in BodySet |-> "dynamic"])

\* no allocator has been constructed
AllocIdle ==
    /\ mMapSizeToHeapIndex = <<>>
    /\ mapI = 0
    /\ mapJ = 0
    /\ mFreeMemoryUnits = <<>>
    /\ mMemoryBlocks = <<>>
    /\ mNbAllocatedMemoryBlocks = 0
    /\ systemMemory = {}
    /\ nbSystemCalls = 0
    /\ liveUnits = {}
    /\ ahist = NoAllocHist
    /\ allocOps = 0
    /\ allocPc = "none"

\* no cone is tested
ConeIdle ==
    /\ coneShape = NoCone
    /\ coneBodyTransform = NoConeTransform
    /\ coneShapeTransform = NoConeTransform
    /\ localPoint = <<0, 0, 0>>
    /\ worldPoint = <<0, 0, 0>>
    /\ bodyAnswer = NoAnswer
    /\ proxyAnswer = NoAnswer

\* no updateObject has been observed
UpdateIdle ==
    /\ lastNewAABB = ZeroAABB
    /\ lastDisplacement = <<0, 0, 0>>

\* no overlap query is running
OverlapIdle ==
    /\ overlapAABB = ZeroAABB
    /\ overlapStack = <<>>
    /\ overlapCalls = <<>>
    /\ overlapPc = "idle"

RestIdle == SmoothIdle /\ WorldIdle /\ AllocIdle /\ ConeIdle /\ UpdateIdle /\ OverlapIdle
(***************************************************************************)
(* Actions of the tree                                                     *)
(***************************************************************************)
Install(t) ==
    /\ mNodes' = t.nodes
    /\ m_rootNodeID' = t.root
    /\ mFreeNodeID' = t.free
    /\ mNbNodes' = t.nb
    /\ mNbAllocatedNodes' = t.alloc

\* the state after the call r = addObject(...)
AddObjectDone(r) ==
    /\ Install(r.t)
    /\ objects' = objects \cup {r.id}
    /\ hist' = [op |-> "add", id |-> r.id, ret |-> TRUE, inside |-> FALSE,
                preNb |-> mNbNodes, preHeight |-> TreeHeight(Tree),
                rot |-> r.t.rot]
    /\ nOps' = nOps + 1

DoAddObject(limit) ==
    /\ nOps < limit
    /\ \E aabb \in AABBSet, g \in MallocFill :
         AddObjectDone(addObject(Tree, aabb, DataOf(nOps)[1], DataOf(nOps)[2], g))

\* the state after the call removeObject(nodeID) that has produced t
RemoveObjectDone(t, nodeID) ==
    /\ Install(t)
    /\ objects' = objects \ {nodeID}
    /\ hist' = [op |-> "remove", id |-> nodeID, ret |-> TRUE, inside |-> FALSE,
                preNb |-> mNbNodes, preHeight |-> TreeHeight(Tree),
                rot |-> t.rot]
    /\ nOps' = nOps + 1

DoRemoveObject(limit) ==
    /\ nOps < limit
    /\ \E nodeID \in objects : RemoveObjectDone(removeObject(Tree, nodeID), nodeID)

\* the state after the call r = updateObject(nodeID, ...)
UpdateObjectDone(r, nodeID, inside) ==
    /\ Install(r.t)
    /\ objects' = objects
    /\ hist' = [op |-> "update", id |-> nodeID, ret |-> r.ret, inside |-> inside,
                preNb |-> mNbNodes, preHeight |-> TreeHeight(Tree),
                rot |-> r.t.rot]
    /\ nOps' = nOps + 1

DoUpdateObject(limit) ==
    /\ nOps < limit
    /\ \E nodeID \in objects, u \in UpdateSet, g \in MallocFill :
         UpdateObjectDone(
             updateObject(Tree, nodeID, u.aabb, u.displacement, u.forceReinsert, g),
             nodeID,
             ~u.forceReinsert /\ contains(mNodes[nodeID].aabb, u.aabb))

AddObject == DoAddObject(MaxOps) /\ UNCHANGED otherVars
RemoveObject == DoRemoveObject(MaxOps) /\ UNCHANGED otherVars
UpdateObject == DoUpdateObject(MaxOps) /\ UNCHANGED otherVars

Init ==
    /\ TreeIs([t |-> init, objects |-> {}], 0)
    /\ EmptyManifold
    /\ RestIdle
    /\ RayIdle

Next == AddObject \/ RemoveObject \/ UpdateObject

Spec == Init /\ [][Next]_vars

\* Trees grown from the empty tree by k insertions
GrowAdded(objs, r) == [t |-> r.t, objects |-> objs \cup {r.id}]

GrowStep(prev, aabb, k, g) ==
    GrowAdded(prev.objects, addObject(prev.t, aabb, DataOf(k - 1)[1], DataOf(k - 1)[2], g))

RECURSIVE Grow(_, _, _)
Grow(seq, k, g) ==
    IF k = 0 THEN [t |-> init, objects |-> {}]
    ELSE GrowStep(Grow(seq, k - 1, g), seq[k], k, g)

GrownAddObject == DoAddObject(GrownAdds + GrownOps) /\ UNCHANGED otherVars

\* removeObject applied to the object that the previous operation added
GrownRemoveObject ==
    /\ hist.op = "add"
    /\ DoRemoveObject(GrownAdds + GrownOps)
    /\ hist'.id = hist.id
    /\ UNCHANGED otherVars

InitGrown ==
    /\ \E seq \in [1..GrownAdds -> AABBSet], g \in MallocFill :
          TreeIs(Grow(seq, GrownAdds, g), GrownAdds)
    /\ EmptyManifold
    /\ RestIdle
    /\ RayIdle

NextGrown == GrownAddObject \/ GrownRemoveObject

SpecGrown == InitGrown /\ [][NextGrown]_vars


(***************************************************************************)
(* Actions of the manifold                                                 *)
(***************************************************************************)
InstallManifold(m) ==
    /\ m_contactPoints' = m.cp
    /\ m_nbContactPoints' = m.nb
    /\ contactPool' = m.pool
    /\ liveContacts' = m.live

\* The manifold after the allocation of the contact point id
WithNewContact(m, id, c) ==
    [m EXCEPT !.pool[id] = c, !.live = m.live \cup {id}]

ManifoldStep(m, op, contact, index) ==
    /\ mOps < MaxManifoldOps
    /\ InstallManifold(m)
    /\ mhist' = [op |-> op, contact |-> contact, index |-> index,
                 preNb |-> m_nbContactPoints, preLive |-> liveContacts]
    /\ mOps' = mOps + 1

AddContactPoint ==
    /\ \E info \in ContactInfoSet :
          ManifoldStep(
              addContactPoint(
                  WithNewContact(Manifold, mOps + 1,
                                 ContactPoint(info, bodyTransform1, bodyTransform2)),
                  mOps + 1),
              "add", mOps + 1, -1)
    /\ UNCHANGED <<bodyTransform1, bodyTransform2, m_frictionImpulse>>
    /\ UNCHANGED <<treeStateVars, rayVars, restVars>>

RemoveContactPoint ==
    /\ \E index \in 0..(m_nbContactPoints - 1) :
          ManifoldStep(removeContactPoint(Manifold, index), "remove",
                       m_contactPoints[index], index)
    /\ UNCHANGED <<bodyTransform1, bodyTransform2, m_frictionImpulse>>
    /\ UNCHANGED <<treeStateVars, rayVars, restVars>>

\* The bodies have moved to a new pose and the manifold is refreshed for it
Update ==
    /\ \E pose \in PoseSet :
          /\ ManifoldStep(update(Manifold, pose.t1, pose.t2), "update", 0, -1)
          /\ bodyTransform1' = pose.t1
          /\ bodyTransform2' = pose.t2
    /\ UNCHANGED m_frictionImpulse
    /\ UNCHANGED <<treeStateVars, rayVars, restVars>>

Clear ==
    /\ ManifoldStep(clear(Manifold), "clear", 0, -1)
    /\ UNCHANGED <<bodyTransform1, bodyTransform2, m_frictionImpulse>>
    /\ UNCHANGED <<treeStateVars, rayVars, restVars>>

InitManifold ==
    /\ TreeIs([t |-> init, objects |-> {}], 0)
    /\ EmptyManifold
    /\ RestIdle
    /\ RayIdle

NextManifold == AddContactPoint \/ RemoveContactPoint \/ Update \/ Clear

SpecManifold == InitManifold /\ [][NextManifold]_vars

(***************************************************************************)
(* Actions of the ray cast: one per iteration of the loop of raycast       *)
(***************************************************************************)
Top(s) == s[Len(s)]
Pop(s) == SubSeq(s, 1, Len(s) - 1)

\* Lines 619-622
RaycastBegin ==
    /\ rayPc = "idle"
    /\ rayPc' = "loop"
    /\ maxFraction' = ray.maxFraction
    /\ stack' = <<m_rootNodeID>>
    /\ UNCHANGED <<ray, calls, hitOf, callbackMode>>
    /\ UNCHANGED <<treeStateVars, manifoldVars, restVars>>

\* the node on top of the stack passes the tests of lines 632 and 640
Reaches(nodeID) ==
    /\ nodeID # NULL_TREE_NODE
    /\ testRayIntersect(mNodes[nodeID].aabb, RayTemp(ray, maxFraction))

\* Lines 629-640: a null node or a node that the clipped ray misses
RaycastSkip ==
    /\ rayPc = "loop" /\ stack # <<>>
    /\ ~Reaches(Top(stack))
    /\ stack' = Pop(stack)
    /\ UNCHANGED <<ray, rayPc, maxFraction, calls, hitOf, callbackMode>>
    /\ UNCHANGED <<treeStateVars, manifoldVars, restVars>>

\* the state after the callback has returned hitFraction for the leaf
CallbackReturned(nodeID, hitFraction, a) ==
    /\ calls' = Append(calls, [node |-> nodeID, maxFraction |-> maxFraction,
                               hitFraction |-> hitFraction,
                               pending |-> Pop(stack)])
    /\ rayPc' = IF a.return THEN "done" ELSE "loop"
    /\ maxFraction' = a.maxFraction
    /\ stack' = Pop(stack)

\* Lines 643-666: the callback is invoked for a leaf
RaycastLeaf ==
    /\ rayPc = "loop" /\ stack # <<>>
    /\ Reaches(Top(stack))
    /\ isLeaf(mNodes[Top(stack)])
    /\ \E hitFraction \in (IF callbackMode = "own" THEN {hitOf[Top(stack)]}
                           ELSE CallbackReturnSet) :
          CallbackReturned(Top(stack), hitFraction,
                           AfterCallback(hitFraction, maxFraction))
    /\ UNCHANGED <<ray, hitOf, callbackMode>>
    /\ UNCHANGED <<treeStateVars, manifoldVars, restVars>>

\* Lines 667-672: the children are pushed
RaycastInternal ==
    /\ rayPc = "loop" /\ stack # <<>>
    /\ Reaches(Top(stack))
    /\ ~isLeaf(mNodes[Top(stack)])
    /\ stack' = PushChildren(Pop(stack), mNodes[Top(stack)])
    /\ UNCHANGED <<ray, rayPc, maxFraction, calls, hitOf, callbackMode>>
    /\ UNCHANGED <<treeStateVars, manifoldVars, restVars>>

\* Line 626: the stack is empty
RaycastEnd ==
    /\ rayPc = "loop" /\ stack = <<>>
    /\ rayPc' = "done"
    /\ UNCHANGED <<ray, stack, maxFraction, calls, hitOf, callbackMode>>
    /\ UNCHANGED <<treeStateVars, manifoldVars, restVars>>

\* a ray, a callback and the shapes of the leaves of the tree b.t
RayIs(b, r) ==
    /\ ray = r
    /\ rayPc = "idle"
    /\ stack = <<>>
    /\ maxFraction = 0
    /\ calls = <<>>
    /\ \/ /\ callbackMode = "any"
          /\ hitOf = [o \in b.objects |-> Miss]
       \/ /\ callbackMode = "own"
          /\ hitOf \in HitMaps(b.t, b.objects, r)

RayTreeIs(b, k) ==
    /\ TreeIs(b, k)
    /\ \E r \in RaySet : RayIs(b, r)

InitRay ==
    /\ \E k \in 2..MaxRayLeaves :
         \E seq \in [1..k -> RayBoxSet] : RayTreeIs(Grow(seq, k, 0), k)
    /\ EmptyManifold
    /\ RestIdle

NextRay == RaycastBegin \/ RaycastSkip \/ RaycastLeaf \/ RaycastInternal \/ RaycastEnd

SpecRay == InitRay /\ [][NextRay]_vars

(***************************************************************************)
(* A filled manifold: four contacts, impulses stored by the solver, then   *)
(* addContactPoint and update                                              *)
(***************************************************************************)
\* The manifold after addContactPoint of the first k points of seq on a new
\* manifold with room for n contact points in memory, the bodies at rest
RECURSIVE Fill(_, _, _, _)
Fill(seq, k, deepest, n) ==
    IF k = 0
    THEN [cp |-> [i \in 0..(MAX_CONTACT_POINTS_IN_MANIFOLD - 1) |-> 0],
          nb |-> 0, pool |-> [id \in 1..n |-> NoContact], live |-> {}]
    ELSE addContactPoint(
             WithNewContact(Fill(seq, k - 1, deepest, n), k,
                            ContactPoint(Info(seq[k][1], seq[k][2],
                                              FilledDepth(k - 1, deepest)),
                                         Identity, Identity)),
             k)

\* Sequences of four different points
FilledSeqSet ==
    {seq \in [1..MAX_CONTACT_POINTS_IN_MANIFOLD -> FilledPointSet] :
        \A i, j \in 1..MAX_CONTACT_POINTS_IN_MANIFOLD : i # j => seq[i] # seq[j]}

\* the manifold m with the impulses of the solver, the bodies at rest
FilledManifoldIs(m, p) ==
    /\ m_contactPoints = m.cp
    /\ m_nbContactPoints = m.nb
    /\ contactPool = m.pool
    /\ liveContacts = m.live
    /\ bodyTransform1 = Identity
    /\ bodyTransform2 = Identity
    /\ mhist = NoManifoldHist
    /\ mOps = MAX_CONTACT_POINTS_IN_MANIFOLD
    /\ m_frictionImpulse = StoredFrictionImpulse(p)

InitFilled ==
    /\ TreeIs([t |-> init, objects |-> {}], 0)
    /\ \E seq \in FilledSeqSet, deepest \in 0..(MAX_CONTACT_POINTS_IN_MANIFOLD - 1),
          p \in SolverImpulseSet :
          FilledManifoldIs(
              storeImpulses(
                  Fill(seq, MAX_CONTACT_POINTS_IN_MANIFOLD, deepest,
                       MAX_CONTACT_POINTS_IN_MANIFOLD + FilledOps),
                  p),
              p)
    /\ RayIdle
    /\ RestIdle

FilledStep(m, op, contact, index) ==
    /\ mOps < MAX_CONTACT_POINTS_IN_MANIFOLD + FilledOps
    /\ InstallManifold(m)
    /\ mhist' = [op |-> op, contact |-> contact, index |-> index,
                 preNb |-> m_nbContactPoints, preLive |-> liveContacts]
    /\ mOps' = mOps + 1

FilledAddContactPoint ==
    /\ \E p \in FilledPointSet, depth \in NewDepthSet :
          FilledStep(
              addContactPoint(
                  WithNewContact(Manifold, mOps + 1,
                                 ContactPoint(Info(p[1], p[2], depth),
                                              bodyTransform1, bodyTransform2)),
                  mOps + 1),
              "add", mOps + 1, -1)
    /\ UNCHANGED <<bodyTransform1, bodyTransform2, m_frictionImpulse>>
    /\ UNCHANGED <<treeStateVars, rayVars, restVars>>

FilledUpdate ==
    /\ \E pose \in FilledPoseSet :
          /\ FilledStep(update(Manifold, pose.t1, pose.t2), "update", 0, -1)
          /\ bodyTransform1' = pose.t1
          /\ bodyTransform2' = pose.t2
    /\ UNCHANGED m_frictionImpulse
    /\ UNCHANGED <<treeStateVars, rayVars, restVars>>

NextFilled == FilledAddContactPoint \/ FilledUpdate

SpecFilled == InitFilled /\ [][NextFilled]_vars

(***************************************************************************)
(* Narrow phase of a concave shape against a convex shape                  *)
(***************************************************************************)
\* Lines 63-76: smooth mesh collision is enabled; the contacts of the
\* triangle tests are collected, then sorted by processSmoothMeshCollision
\* (line 126)
TestCollisionSmooth ==
    /\ smoothPc = "idle"
    /\ \E first \in BOOLEAN :
         \E c1 \in TriangleTestSet(1, first), c2 \in TriangleTestSet(2, first),
            c3 \in TriangleTestSet(3, first) :
           /\ triangleContacts' = c1 \o c2 \o c3
           /\ \E s \in SortedSet(c1 \o c2 \o c3) : contactPoints' = s
           /\ smoothPc' = IF Len(c1 \o c2 \o c3) = 0 THEN "done" ELSE "loop"
    /\ isSmoothMeshCollisionEnabled' = TRUE
    /\ smoothIt' = 1
    /\ processTriangleVertices' = {}
    /\ notified' = <<>>
    /\ reported' = <<>>
    /\ UNCHANGED <<treeStateVars, manifoldVars, rayVars, sleepVars, allocVars, coneVars, updateVars, overlapVars>>

\* Lines 130-224: one iteration of the loop of processSmoothMeshCollision
SmoothIteration(info, bc) ==
    /\ reported' = Append(reported, IsReported(info, bc, processTriangleVertices))
    /\ notified' = IF IsReported(info, bc, processTriangleVertices)
                   THEN Append(notified, NotifiedContact(info, bc))
                   ELSE notified
    /\ processTriangleVertices' = addProcessedVertices(processTriangleVertices, info)

ProcessSmoothContact ==
    /\ smoothPc = "loop"
    /\ SmoothIteration(contactPoints[smoothIt], BarycentricOf(contactPoints[smoothIt]))
    /\ smoothIt' = smoothIt + 1
    /\ smoothPc' = IF smoothIt = Len(contactPoints) THEN "done" ELSE "loop"
    /\ UNCHANGED <<isSmoothMeshCollisionEnabled, triangleContacts, contactPoints>>
    /\ UNCHANGED <<treeStateVars, manifoldVars, rayVars, sleepVars, allocVars, coneVars, updateVars, overlapVars>>

\* Lines 78-84: smooth mesh collision is not enabled; every contact of a
\* triangle test goes to the narrow-phase callback
TestCollisionDirect ==
    /\ smoothPc = "idle"
    /\ \E first \in BOOLEAN :
         \E c1 \in TriangleTestSet(1, first), c2 \in TriangleTestSet(2, first),
            c3 \in TriangleTestSet(3, first) :
           /\ triangleContacts' = c1 \o c2 \o c3
           /\ notified' = [i \in 1..Len(c1 \o c2 \o c3) |-> (c1 \o c2 \o c3)[i].contactInfo]
    /\ isSmoothMeshCollisionEnabled' = FALSE
    /\ smoothPc' = "done"
    /\ UNCHANGED <<contactPoints, smoothIt, processTriangleVertices, reported>>
    /\ UNCHANGED <<treeStateVars, manifoldVars, rayVars, sleepVars, allocVars, coneVars, updateVars, overlapVars>>

InitSmooth ==
    /\ TreeIs([t |-> init, objects |-> {}], 0)
    /\ EmptyManifold
    /\ RayIdle
    /\ SmoothIdle
    /\ WorldIdle
    /\ AllocIdle
    /\ ConeIdle
    /\ UpdateIdle
    /\ OverlapIdle

NextSmooth == TestCollisionSmooth \/ ProcessSmoothContact \/ TestCollisionDirect

SpecSmooth == InitSmooth /\ [][NextSmooth]_vars

(***************************************************************************)
(* Calls on the bodies and steps of the world                              *)
(***************************************************************************)
World == [type |-> bodyType, isSleeping |-> m_isSleeping, sleepTime |-> m_sleepTime,
          velocity |-> velocity, force |-> m_externalForce, torque |-> m_externalTorque]

InstallWorld(w) ==
    /\ m_isSleeping' = w.isSleeping
    /\ m_sleepTime' = w.sleepTime
    /\ velocity' = w.velocity
    /\ m_externalForce' = w.force
    /\ m_externalTorque' = w.torque
    /\ UNCHANGED bodyType

BodyCall(w, op, body) ==
    /\ worldPc = "idle"
    /\ bodyCalls < MaxBodyCalls
    /\ InstallWorld(w)
    /\ whist' = [op |-> op, body |-> body]
    /\ bodyCalls' = bodyCalls + 1
    /\ UNCHANGED <<contactPairs, islands, worldPc, worldSteps>>
    /\ UNCHANGED <<treeStateVars, manifoldVars, rayVars, smoothVars, allocVars, coneVars, updateVars, overlapVars>>

ApplyForce == \E body \in BodySet : BodyCall(applyForce(World, body), "applyForce", body)

ApplyTorque == \E body \in BodySet : BodyCall(applyTorque(World, body), "applyTorque", body)

SetVelocity ==
    \E body \in BodySet, v \in SpeedSet :
        BodyCall(setVelocity(World, body, v), "setVelocity", body)

\* The first part of a step: forces are integrated, the collision detection
\* finds the pairs in contact, the islands are built and solved
StepBuilt(w, pairs, isl, solved) ==
    /\ InstallWorld(Solve(WakeAll(w, UNION isl), UNION isl, solved))
    /\ contactPairs' = pairs
    /\ islands' = isl

StepBegin ==
    /\ worldPc = "idle"
    /\ worldSteps < MaxWorldSteps
    /\ \E pairs \in SUBSET PairSet :
         \E solved \in [UNION computeIslands(IntegrateForces(World), pairs)
                           -> SolvedSpeedSet] :
          StepBuilt(IntegrateForces(World), pairs,
                    computeIslands(IntegrateForces(World), pairs), solved)
    /\ worldPc' = "solved"
    /\ whist' = [op |-> "update", body |-> 0]
    /\ UNCHANGED <<worldSteps, bodyCalls>>
    /\ UNCHANGED <<treeStateVars, manifoldVars, rayVars, smoothVars, allocVars, coneVars, updateVars, overlapVars>>

\* The second part of a step: the sleep update; the islands and the contacts
\* found end with the step
StepEnd ==
    /\ worldPc = "solved"
    /\ InstallWorld(updateSleepingBodies(World, islands))
    /\ islands' = {}
    /\ contactPairs' = {}
    /\ worldPc' = "idle"
    /\ worldSteps' = worldSteps + 1
    /\ UNCHANGED <<whist, bodyCalls>>
    /\ UNCHANGED <<treeStateVars, manifoldVars, rayVars, smoothVars, allocVars, coneVars, updateVars, overlapVars>>

InitWorld ==
    /\ TreeIs([t |-> init, objects |-> {}], 0)
    /\ EmptyManifold
    /\ RayIdle
    /\ SmoothIdle
    /\ AllocIdle
    /\ ConeIdle
    /\ UpdateIdle
    /\ OverlapIdle
    /\ \E types \in BodyTypeSet : WorldIs(types)

NextWorld == ApplyForce \/ ApplyTorque \/ SetVelocity \/ StepBegin \/ StepEnd

SpecWorld == InitWorld /\ [][NextWorld]_vars

(***************************************************************************)
(* Construction and calls of the allocator                                 *)
(***************************************************************************)
Allocator == [map |-> mMapSizeToHeapIndex, free |-> mFreeMemoryUnits,
              blocks |-> mMemoryBlocks, nbAllocatedBlocks |-> mNbAllocatedMemoryBlocks,
              system |-> systemMemory, nbSystem |-> nbSystemCalls, live |-> liveUnits,
              pointer |-> NULL_POINTER]

\* Lines 47-55: one iteration of the loop that fills mMapSizeToHeapIndex;
\* line 57 after the last one
ConstructorStep ==
    /\ allocPc = "constructing"
    /\ mMapSizeToHeapIndex' = [mMapSizeToHeapIndex EXCEPT ![mapI] = MapEntry(mapI, mapJ)]
    /\ mapJ' = MapEntry(mapI, mapJ)
    /\ mapI' = mapI + 1
    /\ allocPc' = IF mapI = MAX_UNIT_SIZE THEN "ready" ELSE "constructing"
    /\ UNCHANGED <<mFreeMemoryUnits, mMemoryBlocks, mNbAllocatedMemoryBlocks, systemMemory,
                   nbSystemCalls, liveUnits, ahist, allocOps>>
    /\ UNCHANGED <<treeStateVars, manifoldVars, rayVars, smoothVars, sleepVars, coneVars, updateVars, overlapVars>>

AllocatorCall(a, op, size) ==
    /\ allocPc = "ready"
    /\ allocOps < MaxAllocOps
    /\ mFreeMemoryUnits' = a.free
    /\ mMemoryBlocks' = a.blocks
    /\ mNbAllocatedMemoryBlocks' = a.nbAllocatedBlocks
    /\ systemMemory' = a.system
    /\ nbSystemCalls' = a.nbSystem
    /\ liveUnits' = a.live
    /\ ahist' = [op |-> op, size |-> size, pointer |-> a.pointer]
    /\ allocOps' = allocOps + 1
    /\ UNCHANGED <<mMapSizeToHeapIndex, mapI, mapJ, allocPc>>
    /\ UNCHANGED <<treeStateVars, manifoldVars, rayVars, smoothVars, sleepVars, coneVars, updateVars, overlapVars>>

Allocate == \E size \in AllocSizeSet : AllocatorCall(allocate(Allocator, size), "allocate", size)

\* release of memory allocated before, with the size it was allocated with,
\* or release with size 0
Release ==
    \/ \E u \in liveUnits : AllocatorCall(release(Allocator, u[1], u[2]), "release", u[2])
    \/ \E u \in liveUnits \cup {<<NULL_POINTER, 0>>} :
          AllocatorCall(release(Allocator, u[1], 0), "release", 0)

\* Lines 20-46: the constructor before the loop that fills mMapSizeToHeapIndex
InitAlloc ==
    /\ TreeIs([t |-> init, objects |-> {}], 0)
    /\ EmptyManifold
    /\ RayIdle
    /\ SmoothIdle
    /\ WorldIdle
    /\ ConeIdle
    /\ UpdateIdle
    /\ OverlapIdle
    /\ mMapSizeToHeapIndex = [i \in 0..MAX_UNIT_SIZE |-> IF i = 0 THEN -1 ELSE 0]
    /\ mapI = 1
    /\ mapJ = 0
    /\ mFreeMemoryUnits = [h \in 0..(NB_HEAPS - 1) |-> <<>>]
    /\ mMemoryBlocks = <<>>
    /\ mNbAllocatedMemoryBlocks = NbBlocksStep
    /\ systemMemory = {}
    /\ nbSystemCalls = 0
    /\ liveUnits = {}
    /\ ahist = NoAllocHist
    /\ allocOps = 0
    /\ allocPc = "constructing"

NextAlloc == ConstructorStep \/ Allocate \/ Release

SpecAlloc == InitAlloc /\ [][NextAlloc]_vars

(***************************************************************************)
(* The point-inside test of a body with one cone                           *)
(***************************************************************************)
\* mConeBody->testPointInside(mLocalShapeToWorld * p)
TestPointInsideBody ==
    /\ coneShape # NoCone
    /\ bodyAnswer = NoAnswer
    /\ bodyAnswer' = <<BodyTestPointInside(coneShape, coneBodyTransform,
                                         <<coneShapeTransform>>, worldPoint)>>
    /\ UNCHANGED <<coneShape, coneBodyTransform, coneShapeTransform, localPoint,
                   worldPoint, proxyAnswer>>
    /\ UNCHANGED <<treeStateVars, manifoldVars, rayVars, smoothVars, sleepVars, allocVars,
                   updateVars, overlapVars>>

\* mConeProxyShape->testPointInside(mLocalShapeToWorld * p)
TestPointInsideProxy ==
    /\ coneShape # NoCone
    /\ proxyAnswer = NoAnswer
    /\ proxyAnswer' = <<ProxyTestPointInside(coneShape, coneBodyTransform,
                                           coneShapeTransform, worldPoint)>>
    /\ UNCHANGED <<coneShape, coneBodyTransform, coneShapeTransform, localPoint,
                   worldPoint, bodyAnswer>>
    /\ UNCHANGED <<treeStateVars, manifoldVars, rayVars, smoothVars, sleepVars, allocVars,
                   updateVars, overlapVars>>

InitCone ==
    /\ TreeIs([t |-> init, objects |-> {}], 0)
    /\ EmptyManifold
    /\ RayIdle
    /\ SmoothIdle
    /\ WorldIdle
    /\ AllocIdle
    /\ UpdateIdle
    /\ OverlapIdle
    /\ coneShape \in ConeSet
    /\ coneBodyTransform \in ConeTransformSet
    /\ coneShapeTransform \in ConeTransformSet
    /\ localPoint \in ConeXSet \X ConeYSet \X ConeZSet
    /\ worldPoint = TransformPoint(coneBodyTransform,
                                   TransformPoint(coneShapeTransform, localPoint))
    /\ bodyAnswer = NoAnswer
    /\ proxyAnswer = NoAnswer

NextCone == TestPointInsideBody \/ TestPointInsideProxy

SpecCone == InitCone /\ [][NextCone]_vars

(***************************************************************************)
(* updateObject with its arguments observed                                *)
(***************************************************************************)
MovingAddObject ==
    /\ DoAddObject(MovingOps)
    /\ UNCHANGED <<manifoldVars, rayVars, smoothVars, sleepVars, allocVars, coneVars,
                   updateVars, overlapVars>>

MovingUpdateObject ==
    /\ nOps < MovingOps
    /\ \E nodeID \in objects, aabb \in MovedAABBSet, d \in DisplacementSet,
          forceReinsert \in BOOLEAN, g \in MallocFill :
         /\ UpdateObjectDone(updateObject(Tree, nodeID, aabb, d, forceReinsert, g),
                             nodeID,
                             ~forceReinsert /\ contains(mNodes[nodeID].aabb, aabb))
         /\ lastNewAABB' = aabb
         /\ lastDisplacement' = d
    /\ UNCHANGED <<manifoldVars, rayVars, smoothVars, sleepVars, allocVars, coneVars,
                   overlapVars>>

NextMoving == MovingAddObject \/ MovingUpdateObject

SpecMoving == Init /\ [][NextMoving]_vars

(***************************************************************************)
(* The tree with reset: the operations of the tree and reset, from the     *)
(* empty tree                                                              *)
(***************************************************************************)
\* reset(), lines 54-61: the nodes are freed and init() builds the tree anew
reset(t) == init

Reset ==
    /\ nOps < ResetOps
    /\ Install(reset(Tree))
    /\ objects' = {}
    /\ hist' = [op |-> "reset", id |-> NULL_TREE_NODE, ret |-> TRUE, inside |-> FALSE,
                preNb |-> mNbNodes, preHeight |-> TreeHeight(Tree), rot |-> 0]
    /\ nOps' = nOps + 1
    /\ UNCHANGED otherVars

ResetAddObject == DoAddObject(ResetOps) /\ UNCHANGED otherVars
ResetRemoveObject == DoRemoveObject(ResetOps) /\ UNCHANGED otherVars
ResetUpdateObject == DoUpdateObject(ResetOps) /\ UNCHANGED otherVars

NextReset == ResetAddObject \/ ResetRemoveObject \/ ResetUpdateObject \/ Reset

SpecReset == Init /\ [][NextReset]_vars

(***************************************************************************)
(* Actions of the overlap query: one per iteration of the loop of          *)
(* reportAllShapesOverlappingWithAABB                                      *)
(***************************************************************************)
OverlapAddObject ==
    /\ overlapPc = "idle"
    /\ DoAddObject(OverlapOps)
    /\ UNCHANGED otherVars

OverlapRemoveObject ==
    /\ overlapPc = "idle"
    /\ DoRemoveObject(OverlapOps)
    /\ UNCHANGED otherVars

OverlapUpdateObject ==
    /\ overlapPc = "idle"
    /\ DoUpdateObject(OverlapOps)
    /\ UNCHANGED otherVars

\* Lines 579-580: the stack is created and the root is pushed
ReportBegin ==
    /\ overlapPc = "idle"
    /\ \E aabb \in QuerySet : overlapAABB' = aabb
    /\ overlapStack' = <<m_rootNodeID>>
    /\ overlapCalls' = <<>>
    /\ overlapPc' = "loop"
    /\ UNCHANGED <<treeStateVars, manifoldVars, rayVars, smoothVars, sleepVars,
                   allocVars, coneVars, updateVars>>

\* the node on top of the stack passes the tests of lines 590 and 596
Overlaps(nodeID) ==
    /\ nodeID # NULL_TREE_NODE
    /\ testCollision(overlapAABB, mNodes[nodeID].aabb)

\* Lines 587-596: a null node or a node that the query AABB does not overlap
ReportSkip ==
    /\ overlapPc = "loop" /\ overlapStack # <<>>
    /\ ~Overlaps(Top(overlapStack))
    /\ overlapStack' = Pop(overlapStack)
    /\ UNCHANGED <<overlapAABB, overlapCalls, overlapPc>>
    /\ UNCHANGED <<treeStateVars, manifoldVars, rayVars, smoothVars, sleepVars,
                   allocVars, coneVars, updateVars>>

\* Lines 599-603: the callback is notified of a leaf
ReportLeaf ==
    /\ overlapPc = "loop" /\ overlapStack # <<>>
    /\ Overlaps(Top(overlapStack))
    /\ isLeaf(mNodes[Top(overlapStack)])
    /\ overlapCalls' = Append(overlapCalls, Top(overlapStack))
    /\ overlapStack' = Pop(overlapStack)
    /\ UNCHANGED <<overlapAABB, overlapPc>>
    /\ UNCHANGED <<treeStateVars, manifoldVars, rayVars, smoothVars, sleepVars,
                   allocVars, coneVars, updateVars>>

\* Lines 604-609: the children are pushed
ReportInternal ==
    /\ overlapPc = "loop" /\ overlapStack # <<>>
    /\ Overlaps(Top(overlapStack))
    /\ ~isLeaf(mNodes[Top(overlapStack)])
    /\ overlapStack' = PushChildren(Pop(overlapStack), mNodes[Top(overlapStack)])
    /\ UNCHANGED <<overlapAABB, overlapCalls, overlapPc>>
    /\ UNCHANGED <<treeStateVars, manifoldVars, rayVars, smoothVars, sleepVars,
                   allocVars, coneVars, updateVars>>

\* Line 583: the stack is empty
ReportEnd ==
    /\ overlapPc = "loop" /\ overlapStack = <<>>
    /\ overlapPc' = "done"
    /\ UNCHANGED <<overlapAABB, overlapStack, overlapCalls>>
    /\ UNCHANGED <<treeStateVars, manifoldVars, rayVars, smoothVars, sleepVars,
                   allocVars, coneVars, updateVars>>

\* one iteration of the loop, or leaving it
ReportStep == ReportSkip \/ ReportLeaf \/ ReportInternal \/ ReportEnd

NextOverlap ==
    \/ OverlapAddObject \/ OverlapRemoveObject \/ OverlapUpdateObject
    \/ ReportBegin \/ ReportSkip \/ ReportLeaf \/ ReportInternal \/ ReportEnd

\* the loop of the query runs on once it has been entered
SpecOverlap == Init /\ [][NextOverlap]_vars /\ WF_vars(ReportStep)
(***************************************************************************)
(* Structure of the tree                                                   *)
(***************************************************************************)
\* Ids of the nodes of the sub-tree rooted at nodeID
RECURSIVE SubTree(_, _)
SubTree(t, nodeID) ==
    IF nodeID = NULL_TREE_NODE THEN {}
    ELSE IF isLeaf(t.nodes[nodeID]) THEN {nodeID}
    ELSE {nodeID} \cup SubTree(t, t.nodes[nodeID].children[1])
                  \cup SubTree(t, t.nodes[nodeID].children[2])

TreeNodes == SubTree(Tree, m_rootNodeID)
InternalNodes == {i \in TreeNodes : ~isLeaf(mNodes[i])}

\* Ids of the nodes on the free list, followed for at most k links
RECURSIVE FreeList(_, _, _)
FreeList(t, nodeID, k) ==
    IF nodeID = NULL_TREE_NODE \/ k = 0 THEN {}
    ELSE {nodeID} \cup FreeList(t, t.nodes[nodeID].parentID, k - 1)

FreeNodes == FreeList(Tree, mFreeNodeID, mNbAllocatedNodes)

(***************************************************************************)
(* Claims on the tree                                                      *)
(***************************************************************************)
\* C1: after any sequence of addObject, removeObject and updateObject calls
\* the heights of the two children of every internal node differ by at most 1.
C1_Balanced ==
    \A i \in InternalNodes :
        Abs(computeHeight(Tree, mNodes[i].children[1])
            - computeHeight(Tree, mNodes[i].children[2])) <= 1

C3_Heights ==
    /\ \A i \in TreeNodes :
          IF i \in objects
          THEN mNodes[i].height = 0
          ELSE mNodes[i].height =
                 1 + Max2(mNodes[mNodes[i].children[1]].height,
                          mNodes[mNodes[i].children[2]].height)
    /\ objects \subseteq TreeNodes
    /\ \A i \in FreeNodes : mNodes[i].height = -1
    /\ \A i \in (0..(mNbAllocatedNodes - 1)) \ TreeNodes : mNodes[i].height = -1

\* a reinsertion that released and reallocated a parent node and rotated
C3_Witness ==
    /\ hist.op = "update" /\ hist.ret /\ hist.rot > 0
    /\ \E i \in InternalNodes : mNodes[i].height >= 2

\* C6: removing the object that the previous operation added restores the
\* node count and the height the tree had before the insertion.
C6_AddThenRemoveRestoresStats ==
    [][(hist.op = "add" /\ hist'.op = "remove" /\ hist'.id = hist.id)
         => (mNbNodes' = hist.preNb /\ TreeHeight(Tree') = hist.preHeight)]_vars

\* C9: updateObject without forced reinsertion and with a new AABB inside
\* the fat AABB of the leaf returns false and changes nothing in the tree.
C9_UpdateInsideIsNoOp ==
    [][(hist'.op = "update" /\ hist'.inside)
         => (hist'.ret = FALSE /\ UNCHANGED treeVars)]_vars

C9_Witness ==
    /\ hist.op = "update" /\ hist.inside /\ ~hist.ret
    /\ Cardinality(objects) >= 2

\* C10: an operation on other ids leaves every object id a leaf with the
\* same fat AABB and the same user data.
C10_IdsStable ==
    [][\A i \in objects :
          (i \in objects' /\ hist'.id # i)
            => /\ isLeaf(mNodes'[i])
               /\ mNodes'[i].aabb = mNodes[i].aabb
               /\ mNodes'[i].children = mNodes[i].children
               /\ i \in SubTree(Tree', m_rootNodeID')]_vars

\* the node array has been doubled by an insertion next to four older leaves
C10_Witness ==
    /\ mNbAllocatedNodes = 2 * InitialAllocatedNodes
    /\ hist.op = "add"
    /\ Cardinality(objects) >= 5


(***************************************************************************)
(* Claims on the contact manifold                                          *)
(***************************************************************************)
\* Ids of the contact points in the slots 0..count-1
StoredContacts == {m_contactPoints[i] : i \in 0..(m_nbContactPoints - 1)}

\* C4: after any sequence of addContactPoint, removeContactPoint, update and
\* clear the manifold holds between 0 and 4 contact points and the slots
\* 0..count-1 are exactly the live contacts, each in one slot.
C4_SlotsAreLiveContacts ==
    /\ m_nbContactPoints \in 0..MAX_CONTACT_POINTS_IN_MANIFOLD
    /\ StoredContacts = liveContacts
    /\ Cardinality(liveContacts) = m_nbContactPoints

\* a contact has been added to a full manifold after contacts had been removed
C4_Witness ==
    /\ mhist.op = "add"
    /\ mhist.preNb = MAX_CONTACT_POINTS_IN_MANIFOLD
    /\ mhist.contact \in liveContacts
    /\ \E id \in mhist.preLive : id \notin liveContacts

\* C5: under any interleaving of update with rigid poses and addContactPoint
\* no two stored contacts have world points on body 1 within the persistence
\* threshold of each other.
C5_NoTwoContactsWithinThreshold ==
    \A i, j \in 0..(m_nbContactPoints - 1) :
        i # j =>
          lengthSquare(VSub(contactPool[m_contactPoints[i]].worldPointOnBody1,
                            contactPool[m_contactPoints[j]].worldPointOnBody1))
            > PERSISTENT_CONTACT_DIST_THRESHOLD * PERSISTENT_CONTACT_DIST_THRESHOLD

\* after a refresh with a rotated pose a new contact at the threshold distance
\* of a stored one has been dropped
C5_Witness ==
    /\ mhist.op = "add"
    /\ mhist.contact \notin liveContacts
    /\ bodyTransform1.turns = 1
    /\ m_nbContactPoints >= 2
    /\ \E i \in 0..(m_nbContactPoints - 1) :
          lengthSquare(VSub(contactPool[m_contactPoints[i]].worldPointOnBody1,
                            contactPool[mhist.contact].worldPointOnBody1))
            = PERSISTENT_CONTACT_DIST_THRESHOLD * PERSISTENT_CONTACT_DIST_THRESHOLD

(***************************************************************************)
(* Claims on the ray cast                                                  *)
(***************************************************************************)
\* Leaves for which the callback has been invoked
Visited == {calls[i].node : i \in 1..Len(calls)}

\* Leaves whose shape the ray hits
Crossing == {o \in objects : hitOf[o] # Miss}

MinHit == CHOOSE f \in {hitOf[o] : o \in Crossing} : \A o \in Crossing : f <= hitOf[o]

\* the ray cast has returned, the callback returning the hit fraction of the
\* shape of the leaf, and the ray hits a shape
OwnHitsDone == rayPc = "done" /\ callbackMode = "own" /\ Crossing # {}

\* C7: once a callback returns exactly 0 the traversal ends: that callback
\* is the last one invoked and raycast has returned, whatever is on the stack.
C7_ZeroEndsTraversal ==
    \A i \in 1..Len(calls) :
        calls[i].hitFraction = 0 => (i = Len(calls) /\ rayPc = "done")

\* a callback has returned 0 while the stack still held a node with a leaf
\* that the ray reaches and that has not been visited
C7_Witness ==
    /\ rayPc = "done"
    /\ Len(calls) >= 1
    /\ calls[Len(calls)].hitFraction = 0
    /\ stack # <<>>
    /\ \E o \in objects \ Visited :
          testRayIntersect(mNodes[o].aabb, RayTemp(ray, maxFraction))

\* every leaf with the smallest hit fraction has been visited and the
\* smallest hit fraction is the final maxFraction
MinHitReported ==
    OwnHitsDone =>
        /\ \A o \in Crossing : hitOf[o] = MinHit => o \in Visited
        /\ maxFraction = MinHit

\* with two leaves, both hit by the ray, both have been visited
TwoLeavesBothVisited ==
    (OwnHitsDone /\ Cardinality(objects) = 2 /\ Crossing = objects)
        => objects \subseteq Visited

\* with two leaves, both hit by the ray, both have been visited if the second
\* child of the root, which is visited first, is not hit before the first child
TwoLeavesFartherFirst ==
    (/\ OwnHitsDone /\ Cardinality(objects) = 2 /\ Crossing = objects
     /\ hitOf[mNodes[m_rootNodeID].children[2]] >= hitOf[mNodes[m_rootNodeID].children[1]])
        => objects \subseteq Visited

ManifoldBefore == [Manifold EXCEPT !.pool = contactPool']

StoredContactsAfter == {m_contactPoints'[i] : i \in 0..(m_nbContactPoints' - 1)}

\* The step is addContactPoint on a full manifold with a contact that is not
\* a duplicate
FullAdd ==
    /\ mOps' = mOps + 1
    /\ mhist'.op = "add"
    /\ m_nbContactPoints = MAX_CONTACT_POINTS_IN_MANIFOLD
    /\ ~IsDuplicate(ManifoldBefore, mhist'.contact)

\* Slot i holds the existing contact with the deepest penetration, and it is
\* deeper than the new contact
IsTheDeepest(i) ==
    /\ \A j \in (0..(m_nbContactPoints - 1)) \ {i} :
           At(Manifold, i).penetrationDepth > At(Manifold, j).penetrationDepth
    /\ At(Manifold, i).penetrationDepth > contactPool'[mhist'.contact].penetrationDepth

\* C11: when addContactPoint is called on a full manifold with a contact that
\* is not a duplicate and an existing contact is deeper than the new one, the
\* existing contact with the deepest penetration is not the one removed,
\* whatever the positions of the contacts.
C11_DeepestNeverRemoved ==
    [][FullAdd =>
         \A i \in 0..(m_nbContactPoints - 1) :
             IsTheDeepest(i) => m_contactPoints[i] \in StoredContactsAfter]_vars

\* The contact the step adds
NewContact == mhist'.contact

\* The area estimate of slot k: the squared cross product computed from the
\* new point and the three other slots
SlotArea(k) ==
    IF k = 0 THEN Area(ManifoldBefore, contactPool'[NewContact].localPointOnBody1, 1, 2, 3)
    ELSE IF k = 1 THEN Area(ManifoldBefore, contactPool'[NewContact].localPointOnBody1, 0, 2, 3)
    ELSE IF k = 2 THEN Area(ManifoldBefore, contactPool'[NewContact].localPointOnBody1, 0, 1, 3)
    ELSE Area(ManifoldBefore, contactPool'[NewContact].localPointOnBody1, 0, 1, 2)

\* The slots that may be removed: all but the slot of the deepest existing
\* contact when it is deeper than the new contact
CandidateSlots ==
    (0..(MAX_CONTACT_POINTS_IN_MANIFOLD - 1))
        \ {getIndexOfDeepestPenetration(ManifoldBefore, NewContact)}

\* C12: addContactPoint on a full manifold with a contact that is not a
\* duplicate removes exactly one existing contact, from a candidate slot whose
\* area estimate is the largest among the candidate slots (all four slots when
\* the new contact is the deepest); the new contact is stored and the count
\* stays 4.
C12_RemovesLargestAreaCandidate ==
    [][FullAdd =>
         /\ m_nbContactPoints' = MAX_CONTACT_POINTS_IN_MANIFOLD
         /\ \E k \in CandidateSlots :
              /\ \A j \in CandidateSlots : SlotArea(k) >= SlotArea(j)
              /\ StoredContactsAfter = (StoredContacts \ {m_contactPoints[k]}) \cup {NewContact}]_vars

\* The step is addContactPoint with a contact whose world point on body 1 is
\* within the persistence threshold of the one of a stored contact
DuplicateAdd ==
    /\ mOps' = mOps + 1
    /\ mhist'.op = "add"
    /\ \E i \in 0..(m_nbContactPoints - 1) :
          lengthSquare(VSub(contactPool[m_contactPoints[i]].worldPointOnBody1,
                            contactPool'[NewContact].worldPointOnBody1))
            <= PERSISTENT_CONTACT_DIST_THRESHOLD * PERSISTENT_CONTACT_DIST_THRESHOLD

\* C13: addContactPoint with a contact whose world point on body 1 is within
\* the persistence threshold of a stored contact releases the new contact and
\* leaves the count, the order of the slots and the stored contacts as they
\* were.
C13_DuplicateIsDropped ==
    [][DuplicateAdd =>
         /\ NewContact \notin liveContacts'
         /\ liveContacts' = liveContacts
         /\ m_nbContactPoints' = m_nbContactPoints
         /\ m_contactPoints' = m_contactPoints
         /\ \A i \in 0..(m_nbContactPoints - 1) :
                contactPool'[m_contactPoints[i]] = contactPool[m_contactPoints[i]]]_vars

\* a contact at a distance between 0 and the threshold of a stored one has
\* been dropped from a manifold of three contacts
C13_Witness ==
    /\ mhist.op = "add"
    /\ mhist.contact \notin liveContacts
    /\ mhist.preNb = 3
    /\ m_nbContactPoints = 3
    /\ \E i \in 0..(m_nbContactPoints - 1) :
          lengthSquare(VSub(contactPool[m_contactPoints[i]].worldPointOnBody1,
                            contactPool[mhist.contact].worldPointOnBody1))
            \in 1..(PERSISTENT_CONTACT_DIST_THRESHOLD * PERSISTENT_CONTACT_DIST_THRESHOLD)

\* The distance along the normal between the two points of the contact c for
\* the current poses of the bodies: minus the penetration depth
NormalDistance(c) ==
    -dot(VSub(TransformPoint(bodyTransform1, c.localPointOnBody1),
              TransformPoint(bodyTransform2, c.localPointOnBody2)),
         c.normal)

\* The squared separation of the two points of c in the plane orthogonal to
\* the normal
InPlaneSeparationSquare(c) ==
    lengthSquare(VSub(TransformPoint(bodyTransform2, c.localPointOnBody2),
                      VAdd(TransformPoint(bodyTransform1, c.localPointOnBody1),
                           VScale(c.normal, NormalDistance(c)))))

UpdateStep ==
    /\ mOps' = mOps + 1
    /\ mhist'.op = "update"

\* C15: update changes only world points and penetration depth: every contact
\* that survives the refresh was stored before and has the accumulated normal
\* and friction impulses, the local points and the normal it had, and the
\* friction impulses of the manifold are unchanged.
C15_UpdateKeepsImpulses ==
    [][UpdateStep =>
         /\ m_frictionImpulse' = m_frictionImpulse
         /\ \A id \in StoredContactsAfter :
              /\ id \in StoredContacts
              /\ contactPool'[id].penetrationImpulse = contactPool[id].penetrationImpulse
              /\ contactPool'[id].frictionImpulse1 = contactPool[id].frictionImpulse1
              /\ contactPool'[id].frictionImpulse2 = contactPool[id].frictionImpulse2
              /\ contactPool'[id].localPointOnBody1 = contactPool[id].localPointOnBody1
              /\ contactPool'[id].localPointOnBody2 = contactPool[id].localPointOnBody2
              /\ contactPool'[id].normal = contactPool[id].normal]_vars

\* an update with body 2 moved has removed contacts of a full manifold and a
\* contact with accumulated impulses has survived with a smaller depth
C15_Witness ==
    /\ mhist.op = "update"
    /\ mhist.preNb = MAX_CONTACT_POINTS_IN_MANIFOLD
    /\ m_nbContactPoints \in 1..(MAX_CONTACT_POINTS_IN_MANIFOLD - 1)
    /\ bodyTransform2 # Identity
    /\ m_frictionImpulse # NoFrictionImpulse
    /\ \E i \in 0..(m_nbContactPoints - 1) :
          /\ contactPool[m_contactPoints[i]].penetrationImpulse > 0
          /\ contactPool[m_contactPoints[i]].frictionImpulse1 > 0
          /\ contactPool[m_contactPoints[i]].penetrationDepth = 2

(***************************************************************************)
(* Claims on the smooth mesh filter                                        *)
(***************************************************************************)
\* The point of the contact c on its triangle
PointOnTriangle(c) ==
    IF c.isFirstShapeTriangle THEN c.contactInfo.localPoint1 ELSE c.contactInfo.localPoint2

\* p lies on the segment from a to b and is neither a nor b
StrictlyBetween(p, a, b) ==
    /\ cross(VSub(p, a), VSub(b, a)) = <<0, 0, 0>>
    /\ dot(VSub(p, a), VSub(b, a)) > 0
    /\ dot(VSub(p, a), VSub(b, a)) < dot(VSub(b, a), VSub(b, a))

TriangleVertexSet(c) == {c.triangleVertices[i] : i \in 1..3}

\* The triangle tests have yielded two contacts, of two triangles that share
\* an edge, and each is an edge contact on the shared edge
TwoContactsOnSharedEdge ==
    /\ Len(triangleContacts) = 2
    /\ TriangleVertexSet(triangleContacts[1]) # TriangleVertexSet(triangleContacts[2])
    /\ \E a, b \in TriangleVertexSet(triangleContacts[1])
                     \cap TriangleVertexSet(triangleContacts[2]) :
          /\ a # b
          /\ StrictlyBetween(PointOnTriangle(triangleContacts[1]), a, b)
          /\ StrictlyBetween(PointOnTriangle(triangleContacts[2]), a, b)

\* C16: when two triangles that share an edge each yield an edge contact on
\* the shared edge, the narrow-phase callback is notified of exactly one
\* contact with smooth mesh collision enabled, and of both contacts without.
C16_OneContactOnSharedEdge ==
    (smoothPc = "done" /\ TwoContactsOnSharedEdge) =>
        IF isSmoothMeshCollisionEnabled
        THEN /\ Len(notified) = 1
             /\ \E i \in 1..2 : notified[1] = triangleContacts[i].contactInfo
        ELSE notified = <<triangleContacts[1].contactInfo, triangleContacts[2].contactInfo>>

\* with smooth mesh collision the deeper of two contacts on the edge shared
\* with the triangle of opposite winding has been filtered out
C16_Witness ==
    /\ smoothPc = "done"
    /\ isSmoothMeshCollisionEnabled
    /\ TwoContactsOnSharedEdge
    /\ reported = <<TRUE, FALSE>>
    /\ contactPoints[1].contactInfo.penetrationDepth
         < contactPoints[2].contactInfo.penetrationDepth
    /\ \E i \in 1..2 : triangleContacts[i].triangleVertices = MeshTriangles[3]

(***************************************************************************)
(* Claims on islands and sleeping                                          *)
(***************************************************************************)
DynamicBodies == {b \in BodySet : bodyType[b] = "dynamic"}

\* The dynamic bodies joined to b by a chain of at most n contacts among
\* dynamic bodies
RECURSIVE Connected(_, _, _)
Connected(b, pairs, n) ==
    IF n = 0 THEN {b}
    ELSE Connected(b, pairs, n - 1)
           \cup {c \in DynamicBodies :
                   \E a \in Connected(b, pairs, n - 1) : {a, c} \in pairs}

\* The island of the dynamic body b: its connected component in the graph of
\* the contacts among dynamic bodies
IslandOf(b, pairs) == Connected(b, pairs, Cardinality(BodySet))

\* The step is the sleep update that ends a step of the world
SleepUpdate == worldPc = "solved" /\ worldPc' = "idle"

\* C17: the bodies of an island go to sleep only together: a body is put to
\* sleep in a step only if every body of its island has been slow for the
\* time-before-sleep, and then all bodies of its island are sleeping after
\* that step; and no island contains a sleeping body.
C17_IslandSleepsTogether ==
    [][/\ \A island \in islands' : \A b \in island : ~m_isSleeping'[b]
       /\ SleepUpdate =>
            \A b \in DynamicBodies :
                (~m_isSleeping[b] /\ m_isSleeping'[b]) =>
                    \A c \in IslandOf(b, contactPairs) :
                        /\ velocity[c] * velocity[c]
                             <= WorldSettings.sleepVelocity * WorldSettings.sleepVelocity
                        /\ m_sleepTime[c] + 1 >= WorldSettings.timeBeforeSleep
                        /\ m_isSleeping'[c]]_vars

\* steps of the world have put all three dynamic bodies to sleep
C17_Witness ==
    /\ worldPc = "idle"
    /\ worldSteps >= WorldSettings.timeBeforeSleep
    /\ whist.op = "update"
    /\ \A b \in BodySet :
          bodyType[b] = "dynamic" /\ m_isSleeping[b] /\ m_sleepTime[b] = 0

\* The call on a body of the step
CallOn(b) ==
    /\ bodyCalls' = bodyCalls + 1
    /\ whist'.op \in {"applyForce", "applyTorque", "setVelocity"}
    /\ whist'.body = b

\* The step is the first part of a step of the world
StepBuilds == worldPc = "idle" /\ worldPc' = "solved"

\* C18: a force, a torque or a velocity given to a sleeping dynamic body wakes
\* it at once and resets its sleep time; a sleeping body in contact with an
\* awake body is awake and in an island that is solved in that same step.
C18_WokenByCallOrContact ==
    [][\A b \in DynamicBodies :
          /\ (CallOn(b) /\ m_isSleeping[b]) =>
                 (~m_isSleeping'[b] /\ m_sleepTime'[b] = 0)
          /\ (/\ StepBuilds
              /\ m_isSleeping[b]
              /\ \E c \in DynamicBodies : ~m_isSleeping[c] /\ {b, c} \in contactPairs')
               => (~m_isSleeping'[b] /\ b \in UNION islands')]_vars

\* a sleeping body has been woken by the contact with an awake body while
\* another body sleeps on
C18_Witness ==
    /\ worldPc = "solved"
    /\ worldSteps >= 2
    /\ \E b, c, d \in BodySet :
          /\ m_isSleeping[d]
          /\ ~m_isSleeping[b]
          /\ ~m_isSleeping[c]
          /\ m_sleepTime[b] = 0
          /\ m_sleepTime[c] > 0
          /\ {b, c} \in contactPairs
          /\ {b, c} \in islands

(***************************************************************************)
(* Claims on the pool allocator                                            *)
(***************************************************************************)
\* The smallest multiple of 8 that is at least s
SmallestUnitSize(s) ==
    ((s + UnitGranularity - 1) \div UnitGranularity) * UnitGranularity

\* The index of the size class of that unit size
ClassOf(s) == (SmallestUnitSize(s) \div UnitGranularity) - 1

\* The step is a call of op with a size from lo to hi
AllocatorStep(op, lo, hi) ==
    /\ allocOps' = allocOps + 1
    /\ ahist'.op = op
    /\ ahist'.size \in lo..hi

\* The free lists of the classes other than the one of s are unchanged
OtherClassesUnchanged(s) ==
    \A h \in (0..(NB_HEAPS - 1)) \ {ClassOf(s)} : mFreeMemoryUnits'[h] = mFreeMemoryUnits[h]

\* C19: every size s from 1 to MAX_UNIT_SIZE is served from the size class
\* whose unit size is the smallest multiple of 8 that is at least s, and
\* release(p, s) puts the unit back into that class; a size above
\* MAX_UNIT_SIZE goes to the system allocator in allocate and in release and
\* leaves the pool alone.
C19_SizeClasses ==
    [][/\ (allocPc = "constructing" /\ allocPc' = "ready") =>
              \A s \in 1..MAX_UNIT_SIZE :
                  mUnitSizes[mMapSizeToHeapIndex'[s]] = SmallestUnitSize(s)
       /\ AllocatorStep("allocate", 1, MAX_UNIT_SIZE) =>
              /\ ahist'.pointer[1] \in 0..(Len(mMemoryBlocks') - 1)
              /\ mMemoryBlocks'[ahist'.pointer[1] + 1] = SmallestUnitSize(ahist'.size)
              /\ ahist'.pointer[2] % SmallestUnitSize(ahist'.size) = 0
              /\ ahist'.pointer[2] + SmallestUnitSize(ahist'.size) <= BLOCK_SIZE
              /\ ahist'.pointer \notin
                     {mFreeMemoryUnits'[ClassOf(ahist'.size)][k] :
                         k \in 1..Len(mFreeMemoryUnits'[ClassOf(ahist'.size)])}
              /\ OtherClassesUnchanged(ahist'.size)
              /\ systemMemory' = systemMemory
       /\ AllocatorStep("release", 1, MAX_UNIT_SIZE) =>
              /\ mFreeMemoryUnits'[ClassOf(ahist'.size)]
                   = <<ahist'.pointer>> \o mFreeMemoryUnits[ClassOf(ahist'.size)]
              /\ OtherClassesUnchanged(ahist'.size)
              /\ mMemoryBlocks' = mMemoryBlocks
              /\ systemMemory' = systemMemory
       /\ AllocatorStep("allocate", MAX_UNIT_SIZE + 1, 2 * MAX_UNIT_SIZE) =>
              /\ ahist'.pointer[1] = -1
              /\ ahist'.pointer \notin systemMemory
              /\ systemMemory' = systemMemory \cup {ahist'.pointer}
              /\ mFreeMemoryUnits' = mFreeMemoryUnits
              /\ mMemoryBlocks' = mMemoryBlocks
       /\ AllocatorStep("release", MAX_UNIT_SIZE + 1, 2 * MAX_UNIT_SIZE) =>
              /\ systemMemory' = systemMemory \ {ahist'.pointer}
              /\ mFreeMemoryUnits' = mFreeMemoryUnits
              /\ mMemoryBlocks' = mMemoryBlocks]_vars

\* a unit of 9 bytes has been released into the class of 16 bytes while a
\* unit of 8 bytes and memory of the system allocator are in use
C19_Witness ==
    /\ allocPc = "ready"
    /\ ahist.op = "release"
    /\ ahist.size = UnitGranularity + 1
    /\ Len(mFreeMemoryUnits[1]) = BLOCK_SIZE \div (2 * UnitGranularity)
    /\ Head(mFreeMemoryUnits[1]) = ahist.pointer
    /\ \E u \in liveUnits : u[2] = UnitGranularity
    /\ systemMemory # {}

(***************************************************************************)
(* Claim on the structural checker of the tree                             *)
(***************************************************************************)
\* C20: check() on any tree reached by addObject, removeObject and
\* updateObject never trips one of its assertions.
C20_CheckNeverTrips == check(Tree) = NoAssertionFails

(***************************************************************************)
(* Claim on the point-inside test of the cone                              *)
(***************************************************************************)
\* the point p is strictly inside the cone of radius r and half height h:
\* -h < y < h and x^2 + z^2 < (r * (h - y) / (2 * h))^2
StrictlyInsideCone(r, h, p) ==
    /\ -h < p[2] /\ p[2] < h
    /\ 4 * h * h * (p[1] * p[1] + p[3] * p[3]) < r * r * (h - p[2]) * (h - p[2])

\* C21: testPointInside(p) is true exactly when -halfHeight < p.y < halfHeight
\* and p.x^2 + p.z^2 < (radius * (halfHeight - p.y) / (2 * halfHeight))^2,
\* both comparisons strict, and the test on the body and the test on the
\* proxy shape give the same answer for a body with that single shape.
C21_ConePointInside ==
    /\ bodyAnswer # NoAnswer =>
          (bodyAnswer[1] <=> StrictlyInsideCone(coneShape.m_radius, coneShape.m_halfHeight,
                                              localPoint))
    /\ proxyAnswer # NoAnswer =>
          (proxyAnswer[1] <=> StrictlyInsideCone(coneShape.m_radius, coneShape.m_halfHeight,
                                               localPoint))
    /\ (bodyAnswer # NoAnswer /\ proxyAnswer # NoAnswer) => bodyAnswer = proxyAnswer

\* a point on the lateral surface of a displaced cone, between its base and
\* its apex, has been tested on the body and on the proxy shape and is outside
C21_Witness ==
    /\ coneShape # NoCone
    /\ coneBodyTransform # NoConeTransform
    /\ -coneShape.m_halfHeight < localPoint[2] /\ localPoint[2] < coneShape.m_halfHeight
    /\ InsideRadius_OrOn(localPoint, radiusHeight(coneShape, localPoint))
    /\ bodyAnswer = <<FALSE>>
    /\ proxyAnswer = <<FALSE>>

(***************************************************************************)
(* Claims on the free nodes and on updateObject                            *)
(***************************************************************************)
\* The number of links from nodeID to the end of the free list, k + 1 when
\* the end is not reached within k links
RECURSIVE FreeListLength(_, _, _)
FreeListLength(t, nodeID, k) ==
    IF nodeID = NULL_TREE_NODE THEN 0
    ELSE IF k = 0 THEN 1
    ELSE 1 + FreeListLength(t, t.nodes[nodeID].parentID, k - 1)

\* C22: after any sequence of tree operations, array growth and reset
\* included, the number of live nodes plus the length of the free list is
\* the number of allocated nodes, the free list is acyclic, and it holds
\* only nodes of height -1.
C22_FreeListAccounts ==
    /\ FreeListLength(Tree, mFreeNodeID, mNbAllocatedNodes) <= mNbAllocatedNodes
    /\ Cardinality(FreeNodes) = FreeListLength(Tree, mFreeNodeID, mNbAllocatedNodes)
    /\ mNbNodes + FreeListLength(Tree, mFreeNodeID, mNbAllocatedNodes) = mNbAllocatedNodes
    /\ \A i \in FreeNodes : mNodes[i].height = -1

\* the tree has been reset after the array had been doubled
C22_Witness ==
    /\ hist.op = "reset"
    /\ hist.preNb > InitialAllocatedNodes
    /\ mNbAllocatedNodes = InitialAllocatedNodes
    /\ mNbNodes = 0

\* The fat AABB the claim describes, one axis at a time: the tight bound
\* moved out by the constant gap, and by the multiple of the displacement on
\* the minimum side when the displacement is negative, on the maximum side
\* otherwise
ExpectedMin(lo, d) ==
    IF d < 0 THEN lo - mExtraAABBGap + (LinGapMultiplierNum * d) \div LinGapMultiplierDen
    ELSE lo - mExtraAABBGap
ExpectedMax(hi, d) ==
    IF d < 0 THEN hi + mExtraAABBGap
    ELSE hi + mExtraAABBGap + (LinGapMultiplierNum * d) \div LinGapMultiplierDen

\* the last operation was an updateObject that reinserted its leaf
Reinserted == hist.op = "update" /\ hist.ret

\* C23: when updateObject reinserts a leaf, its new fat AABB is the new
\* tight AABB grown by the constant gap on every side and, per axis, extended
\* by the displacement multiple on the minimum side if that component is
\* negative and on the maximum side otherwise; it contains the new tight AABB.
C23_ReinsertedFatAABB ==
    Reinserted =>
        /\ \A k \in 1..3 :
              /\ mNodes[hist.id].aabb.min[k]
                   = ExpectedMin(lastNewAABB.min[k], lastDisplacement[k])
              /\ mNodes[hist.id].aabb.max[k]
                   = ExpectedMax(lastNewAABB.max[k], lastDisplacement[k])
        /\ contains(mNodes[hist.id].aabb, lastNewAABB)

\* a leaf has been reinserted with a displacement that is negative along x,
\* zero along y and positive along z, next to another leaf
C23_Witness ==
    /\ Reinserted
    /\ lastDisplacement[1] < 0 /\ lastDisplacement[2] = 0 /\ lastDisplacement[3] > 0
    /\ Cardinality(objects) >= 2
    /\ mNodes[hist.id].aabb.min[1] < lastNewAABB.min[1] - mExtraAABBGap
    /\ mNodes[hist.id].aabb.max[3] > lastNewAABB.max[3] + mExtraAABBGap

(***************************************************************************)
(* Claim on the maximum fraction of the ray cast                           *)
(***************************************************************************)
\* The maximum fraction in force after the i-th callback: the one handed to
\* the next callback, or the current one after the last callback
MaxFractionAfter(i) ==
    IF i < Len(calls) THEN calls[i + 1].maxFraction ELSE maxFraction

\* C24: during one ray cast the maximum fraction handed to successive
\* callbacks never increases and never exceeds the ray's initial maxFraction:
\* a negative return leaves it unchanged, and a positive return replaces it
\* only when strictly smaller than the current value.
C24_MaxFractionNeverIncreases ==
    \A i \in 1..Len(calls) :
        /\ calls[i].maxFraction <= ray.maxFraction
        /\ MaxFractionAfter(i) <= calls[i].maxFraction
        /\ calls[i].hitFraction < 0 => MaxFractionAfter(i) = calls[i].maxFraction
        /\ calls[i].hitFraction > 0 =>
              MaxFractionAfter(i) = IF calls[i].hitFraction < calls[i].maxFraction
                                    THEN calls[i].hitFraction
                                    ELSE calls[i].maxFraction

\* a callback has tightened the maximum fraction, a later callback has been
\* handed the tightened value and has returned a larger fraction, and
\* another one a negative value
C24_Witness ==
    /\ Len(calls) >= 3
    /\ calls[1].maxFraction = ray.maxFraction
    /\ \E i, j, k \in 1..Len(calls) :
          /\ i < j /\ i < k /\ j # k
          /\ calls[i].hitFraction > 0 /\ calls[i].hitFraction < calls[i].maxFraction
          /\ calls[j].hitFraction > calls[j].maxFraction
          /\ calls[k].hitFraction < 0
    /\ maxFraction < ray.maxFraction

(***************************************************************************)
(* Claims on the order and the rejections of the smooth mesh filter        *)
(***************************************************************************)
\* p lies on no vertex and on no edge of the triangle of the contact c
InsideFace(c, p) ==
    /\ p \notin TriangleVertexSet(c)
    /\ \A a, b \in TriangleVertexSet(c) : ~StrictlyBetween(p, a, b)

\* The contact c, with its point p on its triangle, is handled while the
\* vertices of processed have been processed, and isNotified tells whether
\* the callback is notified of it
HandledAsClaimed(c, p, processed, isNotified) ==
    /\ p \in TriangleVertexSet(c) => (isNotified => p \notin processed)
    /\ \A a, b \in TriangleVertexSet(c) :
          StrictlyBetween(p, a, b) =>
              (isNotified => (a \notin processed /\ b \notin processed))
    /\ InsideFace(c, p) => isNotified

\* C25: in smooth-mesh filtering contacts are handled in ascending
\* penetration depth; a vertex contact is reported only if its triangle
\* vertex is not yet in the processed set, an edge contact only if neither
\* endpoint of its edge is in the processed set, and a face contact is
\* always reported.
C25_SmoothFilterRules ==
    [][smoothPc = "loop" =>
         /\ smoothIt' = smoothIt + 1
         /\ Len(reported') = smoothIt
         /\ smoothIt > 1 =>
               contactPoints[smoothIt - 1].contactInfo.penetrationDepth
                 <= contactPoints[smoothIt].contactInfo.penetrationDepth
         /\ HandledAsClaimed(contactPoints[smoothIt],
                             PointOnTriangle(contactPoints[smoothIt]),
                             processTriangleVertices, reported'[smoothIt])]_vars

\* three contacts have been handled in ascending depth: the first reported,
\* then a vertex contact rejected for its vertex was processed, and an edge
\* contact rejected though one endpoint of its edge was not processed
C25_Witness ==
    /\ smoothPc = "done"
    /\ reported = <<TRUE, FALSE, FALSE>>
    /\ contactPoints[1].contactInfo.penetrationDepth
         < contactPoints[3].contactInfo.penetrationDepth
    /\ PointOnTriangle(contactPoints[2]) \in TriangleVertexSet(contactPoints[1])
    /\ \E a, b \in TriangleVertexSet(contactPoints[3]) :
          /\ StrictlyBetween(PointOnTriangle(contactPoints[3]), a, b)
          /\ a \notin TriangleVertexSet(contactPoints[1])
                       \cup TriangleVertexSet(contactPoints[2])

\* The vertices that contacts accepted before the k-th contact, or handled
\* before it on its own triangle, have put into the processed set
VerticesOfAccepted(k) ==
    UNION {TriangleVertexSet(contactPoints[i]) :
             i \in {j \in 1..(k - 1) :
                      \/ reported[j]
                      \/ contactPoints[j].triangleVertices
                           = contactPoints[k].triangleVertices}}

\* The rejection of the vertex or edge contact c, with its point p, is due to
\* a vertex of accepted
RejectedByAccepted(c, p, accepted) ==
    /\ p \in TriangleVertexSet(c) => p \in accepted
    /\ \A a, b \in TriangleVertexSet(c) :
          StrictlyBetween(p, a, b) => (a \in accepted \/ b \in accepted)

\* C26: the three vertices of a contact's triangle are added to the
\* processed set after that contact has been accepted; a contact that was
\* rejected does not cause a later vertex or edge contact on another triangle
\* to be rejected.
C26_RejectedContactRejectsNone ==
    \A k \in 1..Len(reported) :
        /\ reported[k] => TriangleVertexSet(contactPoints[k]) \subseteq processTriangleVertices
        /\ ~reported[k] => RejectedByAccepted(contactPoints[k],
                                              PointOnTriangle(contactPoints[k]),
                                              VerticesOfAccepted(k))

(***************************************************************************)
(* Claim on the reinsertion of updateObject                                *)
(***************************************************************************)
\* C27: a reinserting updateObject(id, ...) keeps the total node count
\* unchanged and id remains a leaf of the tree afterwards, also when id was
\* the only leaf (the root) or a child of the root; no assertion of
\* removeLeafNode or insertLeafNode fails.
C27_ReinsertKeepsLeaf ==
    [][(hist'.op = "update" /\ hist'.ret) =>
         /\ mNbNodes' = mNbNodes
         /\ isLeaf(mNodes'[hist'.id])
         /\ hist'.id \in SubTree(Tree', m_rootNodeID')
         /\ hist'.id \in objects'
         /\ \A g \in MallocFill :
               ReinsertAsserts(Tree, hist'.id, mNodes'[hist'.id].aabb, g)
                 = NoAssertionFails]_vars

\* a leaf that was a child of the root, in a tree of two leaves, has been
\* reinserted: its parent was released and a new one allocated
C27_Witness ==
    /\ hist.op = "update" /\ hist.ret
    /\ Cardinality(objects) = 2
    /\ mNbNodes = 3 /\ hist.preNb = 3
    /\ isLeaf(mNodes[hist.id])

\* the only leaf of a tree has been reinserted and is the root again
C27_WitnessOnlyLeaf ==
    /\ hist.op = "update" /\ hist.ret
    /\ m_rootNodeID = hist.id
    /\ mNbNodes = 1

(***************************************************************************)
(* Claim on the overlap query                                              *)
(***************************************************************************)
\* the boxes a and b have a point in common: on each axis the intervals do
SharePoint(a, b) ==
    \A i \in 1..3 : \E x \in a.min[i]..a.max[i] : b.min[i] <= x /\ x <= b.max[i]

\* the leaves of the tree whose fat AABB overlaps the query AABB
OverlappingLeaves == {o \in objects : SharePoint(overlapAABB, mNodes[o].aabb)}

NotifiedNodes == {overlapCalls[i] : i \in 1..Len(overlapCalls)}

\* C28: reportAllShapesOverlappingWithAABB terminates and notifies the
\* callback exactly once for each leaf whose fat AABB overlaps the query AABB
\* and never for any other node; on an empty tree it makes no callback.
C28_OverlapQuery ==
    /\ [](overlapPc = "done" =>
            /\ NotifiedNodes = OverlappingLeaves
            /\ Len(overlapCalls) = Cardinality(OverlappingLeaves)
            /\ (m_rootNodeID = NULL_TREE_NODE => overlapCalls = <<>>))
    /\ [](overlapPc # "idle" => NotifiedNodes \subseteq OverlappingLeaves)
    /\ (overlapPc = "loop" ~> overlapPc = "done")

\* a query on a tree of three leaves or more has ended with two callbacks
\* and a leaf that was not notified
C28_Witness ==
    /\ overlapPc = "done"
    /\ Cardinality(objects) >= 3
    /\ Len(overlapCalls) = 2
    /\ objects \ NotifiedNodes # {}

\* a query on the empty tree has ended
C28_WitnessEmpty ==
    /\ overlapPc = "done"
    /\ m_rootNodeID = NULL_TREE_NODE
    /\ overlapCalls = <<>>

(***************************************************************************)
(* Claim on the loop of ContactManifold::update                            *)
(***************************************************************************)
\* the reads of the loop are those of the contacts of m0, each once, every
\* contact allocated when it is read and every index in range
TestedOnce(m0, reads) ==
    /\ Len(reads) = m0.nb
    /\ {reads[k].contact : k \in 1..Len(reads)} = {m0.cp[i] : i \in 0..(m0.nb - 1)}
    /\ \A k \in 1..Len(reads) : reads[k].live /\ reads[k].inRange

\* tr is the trace of the loop that starts from m0 and has given the
\* manifold of the next state
LoopAsClaimed(m0, tr) ==
    /\ Manifold' = tr.m
    /\ TestedOnce(m0, tr.reads)

\* C29: in ContactManifold::update, the backwards loop combined with the
\* swap-with-last removal tests every contact present at the start of the
\* call exactly once against the removal conditions: no contact is skipped,
\* tested twice, or read after it was released.
C29_UpdateTestsEachOnce ==
    [][(mhist'.op = "update" /\ m_nbContactPoints > 0) =>
         LoopAsClaimed(Manifold,
                       RemoveStaleTrace(RefreshAll(Manifold, bodyTransform1', bodyTransform2'),
                                        m_nbContactPoints - 1, <<>>))]_vars

\* update has removed contacts of a manifold of four and has moved a contact
\* that was added later into a slot before a contact that was added earlier
C29_Witness ==
    /\ mhist.op = "update"
    /\ mhist.preNb = MAX_CONTACT_POINTS_IN_MANIFOLD
    /\ m_nbContactPoints >= 2
    /\ m_nbContactPoints < MAX_CONTACT_POINTS_IN_MANIFOLD
    /\ \E i \in 0..(m_nbContactPoints - 2) : m_contactPoints[i] > m_contactPoints[i + 1]

(***************************************************************************)
(* Claim on the reuse of memory units                                      *)
(***************************************************************************)
\* the pointers returned by allocate and not released since
LivePointers == {u[1] : u \in liveUnits}

\* the variables of the allocator are unchanged
AllocatorUnchanged ==
    UNCHANGED <<mMapSizeToHeapIndex, mFreeMemoryUnits, mMemoryBlocks,
                mNbAllocatedMemoryBlocks, systemMemory, nbSystemCalls, liveUnits>>

\* C30: over any sequence of allocate and release calls with matching sizes,
\* no memory unit is returned by two allocate calls without a release of it
\* in between, a unit released with a size of 1 to MAX_UNIT_SIZE is the next
\* one returned by allocate for the same size class, and allocate(0) returns
\* NULL while release with size 0 changes nothing.
C30_UnitsReused ==
    [][/\ AllocatorStep("allocate", 1, 2 * MAX_UNIT_SIZE) =>
              /\ ahist'.pointer # NULL_POINTER
              /\ ahist'.pointer \notin LivePointers
              /\ liveUnits' = liveUnits \cup {<<ahist'.pointer, ahist'.size>>}
       /\ AllocatorStep("allocate", 1, MAX_UNIT_SIZE) =>
              /\ mFreeMemoryUnits[ClassOf(ahist'.size)] # <<>> =>
                     ahist'.pointer = Head(mFreeMemoryUnits[ClassOf(ahist'.size)])
              /\ (/\ ahist.op = "release"
                  /\ ahist.size \in 1..MAX_UNIT_SIZE
                  /\ ClassOf(ahist.size) = ClassOf(ahist'.size)) =>
                     ahist'.pointer = ahist.pointer
       /\ AllocatorStep("release", 1, MAX_UNIT_SIZE) =>
              /\ Head(mFreeMemoryUnits'[ClassOf(ahist'.size)]) = ahist'.pointer
              /\ ahist'.pointer \notin {u[1] : u \in liveUnits'}
       /\ AllocatorStep("allocate", 0, 0) =>
              ahist'.pointer = NULL_POINTER /\ AllocatorUnchanged
       /\ AllocatorStep("release", 0, 0) => AllocatorUnchanged]_vars

\* allocate has returned a unit again that was released before: a unit
\* behind it in the same block is still in use
C30_Witness ==
    /\ ahist.op = "allocate"
    /\ ahist.pointer[1] >= 0
    /\ ahist.pointer \in LivePointers
    /\ \E u \in liveUnits : u[1][1] = ahist.pointer[1] /\ u[1][2] > ahist.pointer[2]
====
